---- MODULE Spec2Model ----
(***************************************************************************)
(* A model of the academic file archive front end (src/js): the data-access *)
(* layer of api.js over the remote store and the local fallback store, the  *)
(* retry loop of createFile, and the application controller of app.js       *)
(* (appState, the filter setters and the CRUD handlers).                    *)
(*                                                                          *)
(* Strings are sequences of one-character strings, so that toLowerCase,     *)
(* trim and includes are computed, not assumed.  The fields of a file that  *)
(* neither the filters, the folder counts nor the result objects read       *)
(* (fileUrl, thumbnailUrl, fileName, fileSize, folderName, the timestamps)  *)
(* are carried through unchanged by all the code modelled here and are left *)
(* out of the records.                                                      *)
(***************************************************************************)
EXTENDS Integers, Sequences, FiniteSets, TLC

(***************************************************************************)
(* Bounds of the model                                                      *)
(***************************************************************************)
\* the most file rows / entries a store or the in-memory list holds
MaxFiles == 2
\* the most folders a store or the in-memory list holds
MaxFolders == 2
\* the most files / folders a store holds when the data-access layer is
\* called function by function
ApiMaxFiles == 1
ApiMaxFolders == 1

(***************************************************************************)
(* Program constants                                                        *)
(***************************************************************************)
\* api.js:79   const maxAttempts = 3
maxAttempts == 3
\* api.js:136  const waitMs = 250 * attempt
backoffUnitMs == 250

(***************************************************************************)
(* Strings                                                                  *)
(***************************************************************************)
Uppers == <<"A", "B", "C", "D", "E", "F", "G", "H", "I", "J", "K", "L", "M",
            "N", "O", "P", "Q", "R", "S", "T", "U", "V", "W", "X", "Y", "Z">>
Lowers == <<"a", "b", "c", "d", "e", "f", "g", "h", "i", "j", "k", "l", "m",
            "n", "o", "p", "q", "r", "s", "t", "u", "v", "w", "x", "y", "z">>

\* String.prototype.toLowerCase, one character
lowerChar(c) ==
  IF \E i \in DOMAIN Uppers : Uppers[i] = c
  THEN Lowers[CHOOSE i \in DOMAIN Uppers : Uppers[i] = c]
  ELSE c

\* String.prototype.toLowerCase
toLowerCase(s) == [i \in DOMAIN s |-> lowerChar(s[i])]

\* String.prototype.includes: sub occurs in s as a contiguous substring
includes(s, sub) ==
  \E i \in 0..(Len(s) - Len(sub)) : SubSeq(s, i + 1, i + Len(sub)) = sub

\* Array.prototype.includes
arrayIncludes(arr, x) == \E i \in DOMAIN arr : arr[i] = x

\* String.prototype.trim (the white space of the model is the blank)
RECURSIVE trimStart(_)
trimStart(s) == IF s # <<>> /\ Head(s) = " " THEN trimStart(Tail(s)) ELSE s
RECURSIVE trimEnd(_)
trimEnd(s) ==
  IF s # <<>> /\ s[Len(s)] = " " THEN trimEnd(SubSeq(s, 1, Len(s) - 1)) ELSE s
trim(s) == trimEnd(trimStart(s))

\* a || b on strings: the empty (or missing) string is falsy
orElse(a, b) == IF a # <<>> THEN a ELSE b

\* the text of a missing property
undefined == <<"undefined">>

(***************************************************************************)
(* Error objects and messages of the remote client                          *)
(***************************************************************************)
MsgPermission == <<"P", "e", "r", "m", "i", "s", "s", "i", "o", "n", " ",
                   "d", "e", "n", "i", "e", "d">>
MsgForbidden == <<"F", "O", "R", "B", "I", "D", "D", "E", "N">>
MsgNotAuthorized == <<"N", "o", "t", " ", "A", "u", "t", "h", "o", "r", "i",
                      "z", "e", "d">>
MsgDuplicate == <<"d", "u", "p", "l", "i", "c", "a", "t", "e", " ", "k", "e",
                  "y">>
MsgTimeout == <<"G", "a", "t", "e", "w", "a", "y", " ", "T", "i", "m", "e",
                "o", "u", "t">>
MsgFetch == <<"F", "a", "i", "l", "e", "d", " ", "t", "o", " ", "f", "e", "t",
              "c", "h">>
\* api.js:126
MsgEmptyResponse == <<"E", "m", "p", "t", "y", " ", "r", "e", "s", "p", "o",
                      "n", "s", "e", " ", "f", "r", "o", "m", " ", "i", "n",
                      "s", "e", "r", "t">>
\* api.js:143
MsgUnknown == <<"U", "n", "k", "n", "o", "w", "n", " ", "e", "r", "r", "o",
                "r">>
\* api.js:509
MsgNotFound == <<"F", "i", "l", "e", " ", "n", "o", "t", " ", "f", "o", "u",
                 "n", "d">>

\* the error of a {data, error} answer: null, or an object with a message
\* (an HTTP error answered with an empty body gives the message '')
noError == [isNull |-> TRUE, message |-> <<>>]
errorObj(m) == [isNull |-> FALSE, message |-> m]

\* the messages an error answer of the remote store may carry
ErrorMessages ==
  {MsgPermission, MsgForbidden, MsgNotAuthorized, MsgDuplicate, MsgTimeout, <<>>}
\* the messages of the exceptions the remote client may throw
ThrowMessages == {MsgFetch}

\* JSON.stringify of an error object
JSONstringify(e) ==
  <<"{", "\"", "m", "e", "s", "s", "a", "g", "e", "\"", ":", "\"">>
    \o e.message \o <<"\"", "}">>

(***************************************************************************)
(* Data                                                                     *)
(***************************************************************************)
\* identifiers are positive numbers; 0 stands for null
null == 0

\* a folder reference that JavaScript takes as false
falsy(v) == v = null

Ab == <<"A", "b">>
ba == <<"b", "a">>
\* tags: the dialog lower-cases the tags it adds (components.js:355); a row
\* of the store may carry any text
tagX == <<"x">>
tagAB == <<"A", "B">>

\* the title, description, type and tags a caller passes to createFile /
\* updateFile (app.js:357-368); the folder reference is added by FileDatas
Presets ==
  { [title |-> Ab, description |-> <<>>, type |-> "pdf", tags |-> <<tagX>>],
    [title |-> ba, description |-> Ab, type |-> "image", tags |-> <<>>] }

withFolder(p, f) ==
  [title |-> p.title, description |-> p.description, type |-> p.type,
   folderId |-> f, tags |-> p.tags]

\* the fileData objects over the folder references `refs`
FileDatas(refs) == {withFolder(p, f) : p \in Presets, f \in refs}

noFileData ==
  [title |-> <<>>, description |-> <<>>, type |-> "", folderId |-> null,
   tags |-> <<>>]

\* a row of the remote files table (api.js:617-630), the columns read here
noRow ==
  [id |-> 0, title |-> <<>>, description |-> <<>>, type |-> "",
   folder_id |-> null, tags |-> <<>>]

\* the row an insert of fileData creates: api.js:96-106
insertRow(id, fileData) ==
  [id |-> id, title |-> fileData.title, description |-> fileData.description,
   type |-> fileData.type,
   folder_id |-> IF falsy(fileData.folderId) THEN null ELSE fileData.folderId,
   tags |-> fileData.tags]

\* a result object {success, data?, error?}
resultOk(row) == [success |-> TRUE, data |-> row, error |-> undefined]
resultFail(msg) == [success |-> FALSE, data |-> noRow, error |-> msg]
noResult == [success |-> FALSE, data |-> noRow, error |-> undefined]

VARIABLES
  supabaseClient,  \* api.js:784  whether the remote client is initialized
  remoteFiles,     \* the remote files table, newest row first
  remoteFolders,   \* the remote folders table, by name
  localFiles,      \* localStorage 'archiveFiles'
  localFolders,    \* localStorage 'archiveFolders'
  appState,        \* app.js:10-24
  lastCall,        \* the last call of the data-access layer and what it did
  cf,              \* one call of createFile, step by step
  storage,         \* localStorage 'archiveFiles' as the text kept, the clock,
                   \* and what the last create and the last read returned
  session,         \* auth.js:6-9, the profile row of the account, and what
                   \* the last write of a handler did
  tagList,         \* components.js:348 currentTags, with the strings last
                   \* added and the list before the last addition
  dialog,          \* the file dialog: its fields, currentTags and selectedFile
                   \* (components.js:233-409), and the type last submitted
  auth,            \* the calls of signUp under way (auth.js:64-144), the
                   \* identities of the auth provider and the profiles table
  upload,          \* one call of uploadFile (api.js:343-420): the request,
                   \* its events, the progress reported and the promise
  search,          \* the search inputs and their debounce timer
                   \* (app.js:466-491): the clock, the value of either
                   \* input, the pending timers, the input events so far and
                   \* the calls of setSearchQuery
  flight,          \* the submissions of the file form whose request is
                   \* under way (app.js:314-409), in the order the store
                   \* applied them and in the order their results were handled
  lastWrite,       \* the handler of a write that ran last (app.js:289-435):
                   \* which, how it ended, whether it called the data-access
                   \* layer, and appState and the stores as they were before
  removal,         \* one call of the remote deleteFile (api.js:191-227):
                   \* the row and the bucket, the requests made and the
                   \* result
  account,         \* the auth module (auth.js:6-236): currentUser, isAdmin
                   \* and currentUsername, the session the provider keeps,
                   \* the handlers of auth-state changes registered, the
                   \* requests under way and the calls of initAuth
  startup          \* the start of the page (app.js:593-624, 33-73;
                   \* api.js:784-798): the clock, whether the remote service
                   \* is configured, the document and the client script, the
                   \* supabaseReady listener, the 3000 ms timer,
                   \* appState.isLoading and the calls of initApp

\* the variables of the data-access layer and of the application controller
coreVars ==
  <<supabaseClient, remoteFiles, remoteFolders, localFiles, localFolders,
    appState, lastCall, cf>>
\* the variables of the parts modelled on their own
componentVars ==
  <<storage, session, tagList, dialog, auth, upload, search, flight,
    lastWrite, removal, account, startup>>

vars == <<coreVars, componentVars>>
\* what the local store kept as text leaves alone
besidesStorage ==
  <<coreVars, session, tagList, dialog, auth, upload, search, flight,
    lastWrite, removal, account, startup>>
\* what a change of the session leaves alone
besidesSession ==
  <<coreVars, storage, tagList, dialog, auth, upload, search, flight,
    lastWrite, removal, account, startup>>
\* what the tags of the dialog leave alone
besidesTagList ==
  <<coreVars, storage, session, dialog, auth, upload, search, flight,
    lastWrite, removal, account, startup>>
\* what the file dialog leaves alone, the application and stores apart
besidesDialog ==
  <<storage, session, tagList, auth, upload, search, flight, lastWrite,
    removal, account, startup>>
\* what uploadFile leaves alone
besidesUpload ==
  <<coreVars, storage, session, tagList, dialog, auth, search, flight,
    lastWrite, removal, account, startup>>
\* what signUp leaves alone
besidesAuth ==
  <<coreVars, storage, session, tagList, dialog, upload, search, flight,
    lastWrite, removal, account, startup>>

\* localStorage holds no 'archiveFiles' item and nothing was created or read
storageIdle ==
  [item |-> [corrupt |-> FALSE, files |-> <<>>], now |-> 0, pc |-> "idle",
   fileData |-> <<>>, created |-> <<>>, read |-> <<>>]
\* nobody is signed in (auth.js:6-9); the one account of the model is an
\* administrator's (profiles.is_admin, api.js:604)
sessionIdle ==
  [currentUser |-> FALSE, isAdmin |-> FALSE, profileIsAdmin |-> TRUE,
   write |-> [issued |-> FALSE, admin |-> FALSE, stores |-> FALSE,
              files |-> FALSE, folders |-> FALSE, added |-> FALSE]]
\* components.js:348  no tag in the dialog
tagListIdle == [currentTags |-> <<>>, inputs |-> <<>>, before |-> <<>>]
\* the file dialog is closed and nothing was submitted; the type select of
\* the page has the four options of the schema and, or not, one for 'audio'
dialogClosed ==
  [open |-> FALSE, fileId |-> 0, type |-> "document", currentTags |-> <<>>,
   selectedFile |-> FALSE, submitted |-> "none", audioOption |-> FALSE]
\* a call of signUp that has not begun
signUpIdle ==
  [pc |-> "idle", username |-> <<>>, user |-> 0, requests |-> 0,
   steps |-> <<>>, waited |-> 0, success |-> FALSE, error |-> ""]
\* nobody signs up; no identity and no profile
authIdle == [calls |-> <<signUpIdle, signUpIdle>>, users |-> <<>>,
             profiles |-> <<>>]
\* uploadFile has not been called
uploadIdle ==
  [pc |-> "idle", onProgress |-> FALSE, total |-> 0, lastLoaded |-> 0,
   events |-> 0, percents |-> <<>>, event |-> "none", status |-> 0,
   responseText |-> [json |-> FALSE, object |-> FALSE,
                     message |-> "", error |-> ""],
   resolved |-> <<>>]
\* nothing was typed into either search input and no timer is pending
searchIdle ==
  [now |-> 0, desktop |-> <<>>, mobile |-> <<>>, timers |-> {},
   searchTimeout |-> 0, events |-> <<>>, applied |-> <<>>]
\* what the search inputs leave alone, the application and stores apart
besidesSearch ==
  <<storage, session, tagList, dialog, auth, upload, flight, lastWrite,
    removal, account, startup>>
\* no submission of the file form is under way
flightIdle == [subs |-> <<>>, applied |-> <<>>, handled |-> <<>>]
\* what the submissions under way leave alone, the application and stores
\* apart
besidesFlight ==
  <<storage, session, tagList, dialog, auth, upload, search, lastWrite,
    removal, account, startup>>
\* no handler of a write has run
lastWriteIdle ==
  [handler |-> "none", outcome |-> "none", called |-> FALSE,
   files |-> <<>>, folders |-> <<>>, filteredFiles |-> <<>>,
   stores |-> <<>>]
\* what the record of the last handler leaves alone, the application and
\* stores apart
besidesLastWrite ==
  <<storage, session, tagList, dialog, auth, upload, search, flight,
    removal, account, startup>>
\* an asset reference that is absent (file_url or thumbnail_url is null)
noUrl == [storage |-> FALSE, path |-> ""]
\* deleteFile has not been called; the row references no asset
removalIdle ==
  [pc |-> "idle", row |-> [file_url |-> noUrl, thumbnail_url |-> noUrl],
   rowThere |-> TRUE, bucket |-> {},
   file |-> [file_url |-> noUrl, thumbnail_url |-> noUrl],
   steps |-> <<>>, success |-> FALSE]
\* what one call of the remote deleteFile leaves alone, the application and
\* stores apart
besidesRemoval ==
  <<storage, session, tagList, dialog, auth, upload, search, flight,
    lastWrite, account, startup>>
\* auth.js:6-9  nobody is signed in, initAuth was not called, no handler of
\* auth-state changes is registered and no request is under way; a username
\* that is null is the text 'null', which no profile has
nullName == <<"null">>
accountIdle ==
  [currentUser |-> 0, isAdmin |-> FALSE, currentUsername |-> nullName,
   sessionUser |-> 0, listeners |-> 0, pending |-> <<>>, inits |-> <<>>,
   ops |-> 0, last |-> "none"]
\* app.js:22, 593  app.js has not run its start: the page is loading,
\* appState.isLoading is true, the client script has not loaded, nothing is
\* registered and initApp was not called
startupIdle ==
  [now |-> 0, configured |-> TRUE, readyState |-> "loading",
   scriptLoaded |-> FALSE, started |-> FALSE, listener |-> FALSE,
   timer |-> 0, isLoading |-> TRUE, runs |-> <<>>]
\* what the auth module and the start of the page leave alone, the
\* application and stores apart
besidesAccount ==
  <<storage, session, tagList, dialog, auth, upload, search, flight,
    lastWrite, removal>>
\* the parts modelled on their own are not in use
componentsIdle ==
  /\ storage = storageIdle
  /\ session = sessionIdle
  /\ tagList = tagListIdle
  /\ dialog = dialogClosed
  /\ auth = authIdle
  /\ upload = uploadIdle
  /\ search = searchIdle
  /\ flight = flightIdle
  /\ lastWrite = lastWriteIdle
  /\ removal = removalIdle
  /\ account = accountIdle
  /\ startup = startupIdle

(***************************************************************************)
(* Identifiers: crypto.randomUUID / uuid_generate_v4 give an identifier     *)
(* that occurs nowhere in the program's state; the model takes the least    *)
(* such one of the pool of its kind.  (lastCall is a record of the past for *)
(* the properties, not state of the program.)                               *)
(***************************************************************************)
PoolSize == 2 * (MaxFiles + MaxFolders + ApiMaxFiles + ApiMaxFolders) + 6
RemoteFileIds == 1..PoolSize
LocalFileIds == (PoolSize + 1)..(2 * PoolSize)
RemoteFolderIds == (2 * PoolSize + 1)..(3 * PoolSize)
LocalFolderIds == (3 * PoolSize + 1)..(4 * PoolSize)
\* an identifier that is never given out
missingId == 4 * PoolSize + 1

seqIds(s) == {s[i].id : i \in DOMAIN s}
rowRefs(s) == {s[i].folder_id : i \in DOMAIN s}
fileRefs(s) == {s[i].folderId : i \in DOMAIN s}
UsedIds ==
  seqIds(remoteFiles) \cup rowRefs(remoteFiles) \cup seqIds(remoteFolders)
    \cup seqIds(localFiles) \cup fileRefs(localFiles) \cup seqIds(localFolders)
    \cup seqIds(appState.files) \cup fileRefs(appState.files)
    \cup seqIds(appState.filteredFiles) \cup fileRefs(appState.filteredFiles)
    \cup seqIds(appState.folders) \cup {appState.folderFilter}
    \cup {cf.result.data.id}

\* an identifier of `pool` that is neither in use nor in `taken`
freshId(pool, taken) ==
  CHOOSE i \in pool :
    /\ i \notin (UsedIds \cup taken)
    /\ \A j \in pool : j < i => j \in (UsedIds \cup taken)

(***************************************************************************)
(* The local fallback store: api.js:472-555                                 *)
(***************************************************************************)
\* api.js:494-499  the new entry: id + fileData
localFile(id, fileData) ==
  [id |-> id, title |-> fileData.title, description |-> fileData.description,
   type |-> fileData.type, folderId |-> fileData.folderId,
   tags |-> fileData.tags]

\* the data of a result object is read for its id alone (app.js:391); a local
\* entry is held there with the columns of a row
localAsRow(f) ==
  [id |-> f.id, title |-> f.title, description |-> f.description,
   type |-> f.type, folder_id |-> f.folderId, tags |-> f.tags]

\* api.js:472-486
getFilesFromLocalStorage == localFiles

\* api.js:492-503  [files: the array saved, result: what is returned]
createFileInLocalStoragePush(fileData) ==
  LET newFile == localFile(freshId(LocalFileIds, {}), fileData)
  IN  [files |-> Append(getFilesFromLocalStorage, newFile),
       result |-> resultOk(localAsRow(newFile))]
createFileInLocalStorage(fileData) ==
  LET newFile == localFile(freshId(LocalFileIds, {}), fileData)
  IN  [files |-> <<newFile>> \o getFilesFromLocalStorage,
       result |-> resultOk(localAsRow(newFile))]

\* Array.prototype.findIndex by id: 0 stands for -1
findIndex(files, id) ==
  IF \E i \in DOMAIN files : files[i].id = id
  THEN CHOOSE i \in DOMAIN files :
         files[i].id = id /\ \A j \in 1..(i - 1) : files[j].id # id
  ELSE 0

\* {...file, ...fileData}: app.js:378-382, api.js:511
mergeFile(file, fileData) ==
  [file EXCEPT !.title = fileData.title, !.description = fileData.description,
               !.type = fileData.type, !.folderId = fileData.folderId,
               !.tags = fileData.tags]

\* api.js:505-514
updateFileInLocalStorage(id, fileData) ==
  LET files == getFilesFromLocalStorage
      index == findIndex(files, id)
  IN  IF index = 0
      THEN [files |-> files, result |-> resultFail(MsgNotFound)]
      ELSE [files |-> [files EXCEPT ![index] = mergeFile(@, fileData)],
            result |-> resultOk(noRow)]

\* Array.prototype.filter(f => f.id !== id)
withoutId(s, id) == SelectSeq(s, LAMBDA f : f.id # id)

\* api.js:516-521
deleteFileFromLocalStorage(id) ==
  [files |-> withoutId(getFilesFromLocalStorage, id),
   result |-> resultOk(noRow)]

\* api.js:523-532
getFoldersFromLocalStorage == localFolders

\* api.js:538-548
createFolderInLocalStorage(name) ==
  LET newFolder ==
        [id |-> freshId(LocalFolderIds, {}), name |-> name, count |-> 0]
  IN  [folders |-> Append(getFoldersFromLocalStorage, newFolder),
       folder |-> newFolder]

\* api.js:550-555
deleteFolderFromLocalStorage(id) ==
  [folders |-> withoutId(getFoldersFromLocalStorage, id)]

(***************************************************************************)
(* createFile: api.js:73-145, one call, await by await                      *)
(***************************************************************************)
\* api.js:114-115  the failures that are not retried
isNoRetryLower(error) ==
  LET msg == orElse(error.message, <<>>)
  IN  \/ includes(msg, <<"p", "e", "r", "m", "i", "s", "s", "i", "o", "n">>)
      \/ includes(msg, <<"f", "o", "r", "b", "i", "d", "d", "e", "n">>)
      \/ includes(msg, <<"n", "o", "t", " ", "a", "u", "t", "h", "o", "r", "i",
                          "z", "e", "d">>)
      \/ includes(msg, <<"d", "u", "p", "l", "i", "c", "a", "t", "e">>)
isNoRetry(error) ==
  LET msg == toLowerCase(orElse(error.message, <<>>))
  IN  \/ includes(msg, <<"p", "e", "r", "m", "i", "s", "s", "i", "o", "n">>)
      \/ includes(msg, <<"f", "o", "r", "b", "i", "d", "d", "e", "n">>)
      \/ includes(msg, <<"n", "o", "t", " ", "a", "u", "t", "h", "o", "r", "i",
                          "z", "e", "d">>)
      \/ includes(msg, <<"d", "u", "p", "l", "i", "c", "a", "t", "e">>)

\* api.js:143  the message returned when every attempt failed
lastErrorMessageOnly(lastError) == lastError.message
lastErrorMessage(lastError) ==
  IF lastError.isNull
  THEN MsgUnknown
  ELSE orElse(orElse(lastError.message, JSONstringify(lastError)), MsgUnknown)

\* api.js:136  the wait before the next attempt
backoffFixed(attempt) == backoffUnitMs
backoffMs(attempt) == backoffUnitMs * attempt

\* api.js:109-132  one attempt's answer resp = [threw, error, data], evaluated:
\* whether createFile returns, with what, and the lastError it keeps
evalAttemptStale(lastError, resp) ==
  IF resp.threw
  THEN [returns |-> FALSE, result |-> noResult, lastError |-> resp.error]
  ELSE IF ~lastError.isNull \/ ~resp.error.isNull
  THEN LET e == IF resp.error.isNull THEN lastError ELSE resp.error
       IN  IF isNoRetry(e)
           THEN [returns |-> TRUE,
                 result |-> resultFail(orElse(e.message, JSONstringify(e))),
                 lastError |-> e]
           ELSE [returns |-> FALSE, result |-> noResult, lastError |-> e]
  ELSE IF Len(resp.data) > 0
  THEN [returns |-> TRUE, result |-> resultOk(resp.data[1]),
        lastError |-> lastError]
  ELSE [returns |-> FALSE, result |-> noResult,
        lastError |-> errorObj(MsgEmptyResponse)]
evalAttempt(lastError, resp) ==
  IF resp.threw
  THEN [returns |-> FALSE, result |-> noResult, lastError |-> resp.error]
  ELSE IF ~resp.error.isNull
  THEN IF isNoRetry(resp.error)
       THEN [returns |-> TRUE,
             result |-> resultFail(orElse(resp.error.message,
                                          JSONstringify(resp.error))),
             lastError |-> resp.error]
       ELSE [returns |-> FALSE, result |-> noResult, lastError |-> resp.error]
  ELSE IF Len(resp.data) > 0
  THEN [returns |-> TRUE, result |-> resultOk(resp.data[1]),
        lastError |-> lastError]
  ELSE [returns |-> FALSE, result |-> noResult,
        lastError |-> errorObj(MsgEmptyResponse)]

\* what the remote store may do with an insert, and what it answers:
\* rows (the row was inserted and is returned), an empty row list, an error
\* (nothing inserted), or an exception of the client (the request may or may
\* not have been applied)
InsertAnswers ==
  {[kind |-> "rows", applied |-> TRUE, message |-> <<>>]}
    \cup {[kind |-> "empty", applied |-> a, message |-> <<>>] : a \in BOOLEAN}
    \cup {[kind |-> "error", applied |-> FALSE, message |-> m] :
            m \in ErrorMessages}
    \cup {[kind |-> "throw", applied |-> a, message |-> m] :
            a \in BOOLEAN, m \in ThrowMessages}

\* the {data, error} the awaited insert gives the code (or the exception)
insertResp(ans, row) ==
  [threw |-> ans.kind = "throw",
   error |-> IF ans.kind \in {"error", "throw"} THEN errorObj(ans.message)
             ELSE noError,
   data |-> IF ans.kind = "rows" THEN <<row>> ELSE <<>>]

cfIdle ==
  [pc |-> "idle", remote |-> FALSE, fileData |-> noFileData, attempt |-> 0,
   lastError |-> noError, issued |-> 0, inflight |-> 0, timer |-> 0,
   waits |-> <<>>, answers |-> <<>>, result |-> noResult]

\* api.js:73-77  the call; without a client the entry goes to the local store
createFileCall(fileData) ==
  /\ cf.pc = "idle"
  /\ IF ~supabaseClient
     THEN LET made == createFileInLocalStorage(fileData)
          IN  /\ localFiles' = made.files
              /\ cf' = [cf EXCEPT !.pc = "done", !.fileData = fileData,
                                  !.result = made.result]
     ELSE /\ cf' = [cf EXCEPT !.pc = "session", !.remote = TRUE,
                              !.fileData = fileData]
          /\ UNCHANGED localFiles
  /\ UNCHANGED componentVars
  /\ UNCHANGED <<supabaseClient, remoteFiles, remoteFolders, localFolders,
                 appState, lastCall>>

\* api.js:83-94  getSession answers or throws (caught); attempt 1 is issued
createFileSession ==
  /\ cf.pc = "session"
  /\ cf' = [cf EXCEPT !.pc = "insert", !.attempt = 1, !.issued = 1,
                      !.inflight = 1]
  /\ UNCHANGED componentVars
  /\ UNCHANGED <<supabaseClient, remoteFiles, remoteFolders, localFiles,
                 localFolders, appState, lastCall>>

\* api.js:94-144  the insert of the current attempt is answered; the code runs
\* to its return or to the wait before the next attempt
createFileAnswer(ans) ==
  /\ cf.pc = "insert"
  /\ LET row == insertRow(freshId(RemoteFileIds, {}), cf.fileData)
         ev == evalAttempt(cf.lastError, insertResp(ans, row))
         got == [cf EXCEPT !.inflight = 0, !.answers = Append(@, ans),
                           !.lastError = ev.lastError]
     IN  /\ remoteFiles' = IF ans.applied THEN <<row>> \o remoteFiles
                           ELSE remoteFiles
         /\ cf' = IF ev.returns
                  THEN [got EXCEPT !.pc = "done", !.result = ev.result]
                  ELSE IF cf.attempt < maxAttempts
                  THEN [got EXCEPT !.pc = "wait",
                                   !.timer = backoffMs(cf.attempt)]
                  ELSE [got EXCEPT !.pc = "done",
                          !.result = resultFail(lastErrorMessage(ev.lastError))]
  /\ UNCHANGED componentVars
  /\ UNCHANGED <<supabaseClient, remoteFolders, localFiles, localFolders,
                 appState, lastCall>>

\* api.js:137-138, 91-94  the timer fires; the next attempt is issued
createFileRetry ==
  /\ cf.pc = "wait"
  /\ cf' = [cf EXCEPT !.pc = "insert", !.attempt = @ + 1, !.issued = @ + 1,
                      !.inflight = 1, !.waits = Append(@, cf.timer),
                      !.timer = 0]
  /\ UNCHANGED componentVars
  /\ UNCHANGED <<supabaseClient, remoteFiles, remoteFolders, localFiles,
                 localFolders, appState, lastCall>>

\* app.js:10-24
appStateInit ==
  [files |-> <<>>, folders |-> <<>>, filteredFiles |-> <<>>,
   typeFilter |-> "all", folderFilter |-> null, selectedTags |-> <<>>,
   searchQuery |-> <<>>]

(***************************************************************************)
(* The remote store: the tables of api.js:600-630 behind the client         *)
(***************************************************************************)
\* what the remote store may do with one request and what the client gives
\* back: ok (done, no error), an error object (nothing done), or an
\* exception (the request may or may not have been applied)
ApiAnswers ==
  {[kind |-> "ok", applied |-> TRUE, message |-> <<>>]}
    \cup {[kind |-> "error", applied |-> FALSE, message |-> m] :
            m \in {MsgPermission, <<>>}}
    \cup {[kind |-> "throw", applied |-> a, message |-> MsgFetch] :
            a \in BOOLEAN}
\* the answers to a request that changes nothing
ReadAnswers ==
  {a \in ApiAnswers : a.applied = (a.kind = "ok") /\ a.message # <<>>}
    \cup {a \in ApiAnswers : a.kind = "ok"}

\* api.js:47-61  a row in the application's field names
toFile(row) ==
  [id |-> row.id, title |-> row.title, description |-> row.description,
   type |-> row.type, folderId |-> row.folder_id, tags |-> row.tags]
mapRows(rows) == [i \in DOMAIN rows |-> toFile(rows[i])]

\* api.js:162-174  files.update({...}).eq('id', id)
remoteUpdate(rows, id, fileData) ==
  [i \in DOMAIN rows |->
     IF rows[i].id = id THEN insertRow(id, fileData) ELSE rows[i]]

\* api.js:622  folder_id ... ON DELETE SET NULL
detach(rows, id) ==
  [i \in DOMAIN rows |->
     IF rows[i].folder_id = id THEN [rows[i] EXCEPT !.folder_id = null]
     ELSE rows[i]]

\* the order of folder names (api.js:248, order('name'))
Alphabet == <<" ">> \o Uppers \o Lowers
rank(c) == CHOOSE i \in DOMAIN Alphabet : Alphabet[i] = c
RECURSIVE nameLess(_, _)
nameLess(a, b) ==
  IF b = <<>> THEN FALSE
  ELSE IF a = <<>> THEN TRUE
  ELSE IF rank(Head(a)) # rank(Head(b)) THEN rank(Head(a)) < rank(Head(b))
  ELSE nameLess(Tail(a), Tail(b))

\* the folders table with one more row, kept by name
insertByName(folders, row) ==
  LET before == SelectSeq(folders, LAMBDA f : ~nameLess(row.name, f.name))
      after == SelectSeq(folders, LAMBDA f : nameLess(row.name, f.name))
  IN  before \o <<row>> \o after

\* api.js:262-271  the folders with the number of rows that reference each
withCounts(folders, refs) ==
  [i \in DOMAIN folders |->
     [id |-> folders[i].id, name |-> folders[i].name,
      count |-> Cardinality({j \in DOMAIN refs : refs[j] = folders[i].id})]]

(***************************************************************************)
(* The data-access layer: api.js:14-331, one call from entry to return.     *)
(* A call gives the record of what it did (`call`) and the stores it leaves.*)
(***************************************************************************)
called(op, id, requests, local, answers, outcome, result, files, folders) ==
  [op |-> op, client |-> supabaseClient, requests |-> requests,
   local |-> local, answers |-> answers, outcome |-> outcome,
   result |-> result, id |-> id, files |-> files, folders |-> folders]

noCall ==
  [op |-> "none", client |-> FALSE, requests |-> 0, local |-> FALSE,
   answers |-> <<>>, outcome |-> "none", result |-> noResult, id |-> 0,
   files |-> <<>>, folders |-> <<>>]

effect(call, rf, rfo, lf, lfo) ==
  [call |-> call, remoteFiles |-> rf, remoteFolders |-> rfo,
   localFiles |-> lf, localFolders |-> lfo]
noEffect(call) ==
  effect(call, remoteFiles, remoteFolders, localFiles, localFolders)

\* api.js:14-66
getFilesAlwaysRemote(a) ==
  noEffect(called("getFiles", 0, 1, FALSE, <<a>>, "list", noResult,
                  mapRows(remoteFiles), <<>>))
getFiles(a) ==
  IF ~supabaseClient
  THEN noEffect(called("getFiles", 0, 0, TRUE, <<>>, "list", noResult,
                       getFilesFromLocalStorage, <<>>))
  ELSE CASE a.kind = "throw" ->   \* api.js:62-65
              noEffect(called("getFiles", 0, 1, TRUE, <<a>>, "list", noResult,
                              getFilesFromLocalStorage, <<>>))
         [] a.kind = "error" ->   \* api.js:34-37
              noEffect(called("getFiles", 0, 1, TRUE, <<a>>, "list", noResult,
                              getFilesFromLocalStorage, <<>>))
         [] OTHER ->              \* api.js:41-61
              noEffect(called("getFiles", 0, 1, FALSE, <<a>>, "list", noResult,
                              mapRows(remoteFiles), <<>>))

\* api.js:91-144  the retry loop over the answers of the successive inserts
RECURSIVE createFileLoop(_, _, _, _, _)
createFileLoop(fileData, answers, attempt, lastError, rows) ==
  LET ans == answers[attempt]
      row == insertRow(freshId(RemoteFileIds, seqIds(rows)), fileData)
      rows2 == IF ans.applied THEN <<row>> \o rows ELSE rows
      ev == evalAttempt(lastError, insertResp(ans, row))
  IN  IF ev.returns
      THEN [result |-> ev.result, rows |-> rows2, issued |-> attempt]
      ELSE IF attempt < maxAttempts
      THEN createFileLoop(fileData, answers, attempt + 1, ev.lastError, rows2)
      ELSE [result |-> resultFail(lastErrorMessage(ev.lastError)),
            rows |-> rows2, issued |-> attempt]

\* api.js:73-145
createFile(fileData, answers) ==
  IF ~supabaseClient
  THEN LET made == createFileInLocalStorage(fileData)
       IN  effect(called("createFile", 0, 0, TRUE, <<>>, "result",
                         made.result, <<>>, <<>>),
                  remoteFiles, remoteFolders, made.files, localFolders)
  ELSE LET run == createFileLoop(fileData, answers, 1, noError, remoteFiles)
       IN  effect(called("createFile", 0, run.issued, FALSE,
                         SubSeq(answers, 1, run.issued), "result", run.result,
                         <<>>, <<>>),
                  run.rows, remoteFolders, localFiles, localFolders)

\* api.js:153-184
updateFileNoCatch(id, fileData, a) ==
  IF ~supabaseClient
  THEN LET upd == updateFileInLocalStorage(id, fileData)
       IN  effect(called("updateFile", id, 0, TRUE, <<>>, "result",
                         upd.result, <<>>, <<>>),
                  remoteFiles, remoteFolders, upd.files, localFolders)
  ELSE LET rows == IF a.applied THEN remoteUpdate(remoteFiles, id, fileData)
                   ELSE remoteFiles
       IN  CASE a.kind = "throw" ->
                  effect(called("updateFile", id, 1, FALSE, <<a>>,
                                "exception", noResult, <<>>, <<>>),
                         rows, remoteFolders, localFiles, localFolders)
             [] a.kind = "error" ->
                  effect(called("updateFile", id, 1, FALSE, <<a>>, "result",
                                resultFail(a.message), <<>>, <<>>),
                         rows, remoteFolders, localFiles, localFolders)
             [] OTHER ->
                  effect(called("updateFile", id, 1, FALSE, <<a>>, "result",
                                resultOk(noRow), <<>>, <<>>),
                         rows, remoteFolders, localFiles, localFolders)
updateFile(id, fileData, a) ==
  IF ~supabaseClient
  THEN LET upd == updateFileInLocalStorage(id, fileData)
       IN  effect(called("updateFile", id, 0, TRUE, <<>>, "result",
                         upd.result, <<>>, <<>>),
                  remoteFiles, remoteFolders, upd.files, localFolders)
  ELSE LET rows == IF a.applied THEN remoteUpdate(remoteFiles, id, fileData)
                   ELSE remoteFiles
       IN  CASE a.kind = "throw" ->   \* api.js:181-183
                  effect(called("updateFile", id, 1, FALSE, <<a>>, "result",
                                resultFail(a.message), <<>>, <<>>),
                         rows, remoteFolders, localFiles, localFolders)
             [] a.kind = "error" ->   \* api.js:176-178
                  effect(called("updateFile", id, 1, FALSE, <<a>>, "result",
                                resultFail(a.message), <<>>, <<>>),
                         rows, remoteFolders, localFiles, localFolders)
             [] OTHER ->              \* api.js:180
                  effect(called("updateFile", id, 1, FALSE, <<a>>, "result",
                                resultOk(noRow), <<>>, <<>>),
                         rows, remoteFolders, localFiles, localFolders)

\* api.js:191-227  aSel answers the select of the row, aDel the delete;
\* `assets` is the number of stored assets the row names (file_url, and
\* thumbnail_url when it differs): each is removed by deleteStorageFile
\* (api.js:427-453), which returns a result whatever happens and whose result
\* is not read
deleteFile(id, aSel, assets, aDel) ==
  IF ~supabaseClient
  THEN LET del == deleteFileFromLocalStorage(id)
       IN  effect(called("deleteFile", id, 0, TRUE, <<>>, "result",
                         del.result, <<>>, <<>>),
                  remoteFiles, remoteFolders, del.files, localFolders)
  ELSE IF aSel.kind = "throw"        \* api.js:224-226
  THEN noEffect(called("deleteFile", id, 1, FALSE, <<aSel>>, "result",
                       resultFail(aSel.message), <<>>, <<>>))
  ELSE LET found == aSel.kind = "ok" /\ id \in seqIds(remoteFiles)
           removals == IF found THEN assets ELSE 0
           rows == IF aDel.applied THEN withoutId(remoteFiles, id)
                   ELSE remoteFiles
       IN  CASE aDel.kind = "throw" ->   \* api.js:224-226
                  effect(called("deleteFile", id, 2 + removals, FALSE,
                                <<aSel, aDel>>, "result",
                                resultFail(aDel.message), <<>>, <<>>),
                         rows, remoteFolders, localFiles, localFolders)
             [] aDel.kind = "error" ->   \* api.js:219-221
                  effect(called("deleteFile", id, 2 + removals, FALSE,
                                <<aSel, aDel>>, "result",
                                resultFail(aDel.message), <<>>, <<>>),
                         rows, remoteFolders, localFiles, localFolders)
             [] OTHER ->                 \* api.js:223
                  effect(called("deleteFile", id, 2 + removals, FALSE,
                                <<aSel, aDel>>, "result", resultOk(noRow),
                                <<>>, <<>>),
                         rows, remoteFolders, localFiles, localFolders)

\* api.js:237-276  a1 answers the folders query, a2 the folder_id query
getFolders(a1, a2) ==
  IF ~supabaseClient
  THEN noEffect(called("getFolders", 0, 0, TRUE, <<>>, "list", noResult,
                       <<>>, getFoldersFromLocalStorage))
  ELSE CASE a1.kind = "throw" ->   \* api.js:272-275
              noEffect(called("getFolders", 0, 1, TRUE, <<a1>>, "list",
                              noResult, <<>>, getFoldersFromLocalStorage))
         [] a1.kind = "error" ->   \* api.js:250-253
              noEffect(called("getFolders", 0, 1, TRUE, <<a1>>, "list",
                              noResult, <<>>, getFoldersFromLocalStorage))
         [] a2.kind = "throw" ->   \* api.js:272-275
              noEffect(called("getFolders", 0, 2, TRUE, <<a1, a2>>, "list",
                              noResult, <<>>, getFoldersFromLocalStorage))
         [] a2.kind = "error" ->   \* api.js:256, 263: fileCounts is null
              noEffect(called("getFolders", 0, 2, FALSE, <<a1, a2>>, "list",
                              noResult, <<>>, withCounts(remoteFolders, <<>>)))
         [] OTHER ->               \* api.js:262-271
              noEffect(called("getFolders", 0, 2, FALSE, <<a1, a2>>, "list",
                              noResult, <<>>,
                              withCounts(remoteFolders,
                                SelectSeq([i \in DOMAIN remoteFiles |->
                                             remoteFiles[i].folder_id],
                                          LAMBDA r : r # null))))

\* api.js:283-304  the folder created is returned in `folders`
createFolder(name, a) ==
  IF ~supabaseClient
  THEN LET made == createFolderInLocalStorage(name)
       IN  effect(called("createFolder", 0, 0, TRUE, <<>>, "result",
                         resultOk(noRow), <<>>, <<made.folder>>),
                  remoteFiles, remoteFolders, localFiles, made.folders)
  ELSE LET row == [id |-> freshId(RemoteFolderIds, {}), name |-> name]
           rows == IF a.applied THEN insertByName(remoteFolders, row)
                   ELSE remoteFolders
       IN  CASE a.kind = "throw" ->   \* api.js:301-303
                  effect(called("createFolder", 0, 1, FALSE, <<a>>, "result",
                                resultFail(a.message), <<>>, <<>>),
                         remoteFiles, rows, localFiles, localFolders)
             [] a.kind = "error" ->   \* api.js:296-298
                  effect(called("createFolder", 0, 1, FALSE, <<a>>, "result",
                                resultFail(a.message), <<>>, <<>>),
                         remoteFiles, rows, localFiles, localFolders)
             [] OTHER ->              \* api.js:300
                  effect(called("createFolder", 0, 1, FALSE, <<a>>, "result",
                                resultOk(noRow), <<>>,
                                <<[id |-> row.id, name |-> row.name,
                                   count |-> 0]>>),
                         remoteFiles, rows, localFiles, localFolders)

\* deleteFolder whose local branch also detaches the stored files
deleteFolderDetaching(id, a) ==
  IF ~supabaseClient
  THEN LET del == deleteFolderFromLocalStorage(id)
       IN  effect(called("deleteFolder", id, 0, TRUE, <<>>, "result",
                         resultOk(noRow), <<>>, <<>>),
                  remoteFiles, remoteFolders,
                  [i \in DOMAIN localFiles |->
                     IF localFiles[i].folderId = id
                     THEN [localFiles[i] EXCEPT !.folderId = null]
                     ELSE localFiles[i]],
                  del.folders)
  ELSE LET files == IF a.applied THEN detach(remoteFiles, id) ELSE remoteFiles
           rows == IF a.applied THEN withoutId(remoteFolders, id)
                   ELSE remoteFolders
       IN  CASE a.kind = "throw" ->   \* api.js:328-330
                  effect(called("deleteFolder", id, 1, FALSE, <<a>>, "result",
                                resultFail(a.message), <<>>, <<>>),
                         files, rows, localFiles, localFolders)
             [] a.kind = "error" ->   \* api.js:323-325
                  effect(called("deleteFolder", id, 1, FALSE, <<a>>, "result",
                                resultFail(a.message), <<>>, <<>>),
                         files, rows, localFiles, localFolders)
             [] OTHER ->              \* api.js:327
                  effect(called("deleteFolder", id, 1, FALSE, <<a>>, "result",
                                resultOk(noRow), <<>>, <<>>),
                         files, rows, localFiles, localFolders)

\* api.js:311-331
deleteFolder(id, a) ==
  IF ~supabaseClient
  THEN LET del == deleteFolderFromLocalStorage(id)
       IN  effect(called("deleteFolder", id, 0, TRUE, <<>>, "result",
                         resultOk(noRow), <<>>, <<>>),
                  remoteFiles, remoteFolders, localFiles, del.folders)
  ELSE LET files == IF a.applied THEN detach(remoteFiles, id) ELSE remoteFiles
           rows == IF a.applied THEN withoutId(remoteFolders, id)
                   ELSE remoteFolders
       IN  CASE a.kind = "throw" ->   \* api.js:328-330
                  effect(called("deleteFolder", id, 1, FALSE, <<a>>, "result",
                                resultFail(a.message), <<>>, <<>>),
                         files, rows, localFiles, localFolders)
             [] a.kind = "error" ->   \* api.js:323-325
                  effect(called("deleteFolder", id, 1, FALSE, <<a>>, "result",
                                resultFail(a.message), <<>>, <<>>),
                         files, rows, localFiles, localFolders)
             [] OTHER ->              \* api.js:327
                  effect(called("deleteFolder", id, 1, FALSE, <<a>>, "result",
                                resultOk(noRow), <<>>, <<>>),
                         files, rows, localFiles, localFolders)

\* one call of createFile, against an empty remote table and local store
InitCreate ==
  /\ supabaseClient \in BOOLEAN
  /\ remoteFiles = <<>>
  /\ remoteFolders = <<[id |-> 2 * PoolSize + 1, name |-> <<"A", "r", "t">>]>>
  /\ localFiles = <<>>
  /\ localFolders = <<>>
  /\ appState = appStateInit
  /\ lastCall = noCall
  /\ cf = cfIdle
  /\ componentsIdle

createFileStep ==
  \/ createFileSession
  \/ \E ans \in InsertAnswers : createFileAnswer(ans)
  \/ createFileRetry

NextCreate ==
  \/ \E fileData \in FileDatas({null, 2 * PoolSize + 1}) :
       createFileCall(fileData)
  \/ createFileStep

SpecCreate == InitCreate /\ [][NextCreate]_vars

(***************************************************************************)
(* The data-access layer called function by function (SpecApi)              *)
(***************************************************************************)
\* a call of the data-access layer takes effect
apiCall(e) ==
  /\ remoteFiles' = e.remoteFiles
  /\ remoteFolders' = e.remoteFolders
  /\ localFiles' = e.localFiles
  /\ localFolders' = e.localFolders
  /\ lastCall' = e.call
  /\ UNCHANGED componentVars
  /\ UNCHANGED <<supabaseClient, appState, cf>>

\* the file and folder identifiers a caller may pass: those of the stores and
\* one that names nothing
FileIdArgs == seqIds(remoteFiles) \cup seqIds(localFiles) \cup {missingId}
FolderIdArgs ==
  seqIds(remoteFolders) \cup seqIds(localFolders) \cup {missingId}
\* the folder references a caller passes: none, or a folder of the store read
FolderRefs ==
  {null} \cup seqIds(IF supabaseClient THEN remoteFolders ELSE localFolders)
FolderNameArgs == {<<"A", "r", "t">>, <<"L", "a", "w">>}

\* the answers to the three inserts of one createFile call (the retry loop
\* is unfolded answer by answer in SpecCreate): each insert is applied by the
\* store only when it answers with the row
answerOf(kind, m) == [kind |-> kind, applied |-> kind = "rows", message |-> m]
InsertAnswerSeqs ==
  { <<answerOf("rows", <<>>), answerOf("rows", <<>>), answerOf("rows", <<>>)>>,
    <<answerOf("error", MsgTimeout), answerOf("throw", MsgFetch),
      answerOf("rows", <<>>)>>,
    <<answerOf("empty", <<>>), answerOf("error", MsgPermission),
      answerOf("rows", <<>>)>>,
    <<answerOf("throw", MsgFetch), answerOf("empty", <<>>),
      answerOf("error", <<>>)>> }

\* the store the next write goes to has room for one more file / folder
roomForFile ==
  Len(IF supabaseClient THEN remoteFiles ELSE localFiles) < ApiMaxFiles
roomForFolder ==
  Len(IF supabaseClient THEN remoteFolders ELSE localFolders) < ApiMaxFolders

\* api.js:789-797  the client script has loaded
scriptOnload ==
  /\ ~supabaseClient
  /\ supabaseClient' = TRUE
  /\ UNCHANGED componentVars
  /\ UNCHANGED <<remoteFiles, remoteFolders, localFiles, localFolders,
                 appState, lastCall, cf>>

callGetFiles == \E a \in ReadAnswers : apiCall(getFiles(a))
callCreateFile ==
  /\ roomForFile
  /\ \E fileData \in FileDatas(FolderRefs), answers \in InsertAnswerSeqs :
       /\ fileData.type = "pdf"
       /\ apiCall(createFile(fileData, answers))
callUpdateFile ==
  \E id \in FileIdArgs, fileData \in FileDatas(FolderRefs), a \in ApiAnswers :
    /\ fileData.type = "image"
    /\ apiCall(updateFile(id, fileData, a))
callDeleteFile ==
  \E id \in FileIdArgs, aSel \in ReadAnswers, assets \in {0, 2},
     aDel \in ApiAnswers :
    apiCall(deleteFile(id, aSel, assets, aDel))
callGetFolders == \E a1, a2 \in ReadAnswers : apiCall(getFolders(a1, a2))
callCreateFolder ==
  /\ roomForFolder
  /\ \E name \in FolderNameArgs, a \in ApiAnswers :
       apiCall(createFolder(name, a))
callDeleteFolder ==
  \E id \in FolderIdArgs, a \in ApiAnswers : apiCall(deleteFolder(id, a))

\* the page before the client script has loaded; the remote tables and the
\* local store hold what earlier sessions left
InitApi ==
  /\ supabaseClient = FALSE
  /\ remoteFolders = <<[id |-> 2 * PoolSize + 1, name |-> <<"A", "r", "t">>]>>
  /\ remoteFiles = <<insertRow(1, withFolder(CHOOSE p \in Presets :
                                               p.type = "pdf",
                                             2 * PoolSize + 1))>>
  /\ localFiles = <<>>
  /\ localFolders = <<>>
  /\ appState = appStateInit
  /\ lastCall = noCall
  /\ cf = cfIdle
  /\ componentsIdle

NextApi ==
  \/ scriptOnload
  \/ callGetFiles
  \/ callCreateFile
  \/ callUpdateFile
  \/ callDeleteFile
  \/ callGetFolders
  \/ callCreateFolder
  \/ callDeleteFolder

SpecApi == InitApi /\ [][NextApi]_vars

(***************************************************************************)
(* The application: app.js:78-435 over the data-access layer (Spec).        *)
(* A handler is one action, from the event to the end of what it does with  *)
(* the answer of the data-access layer: appState is read and written only   *)
(* in the synchronous code after the answer (app.js:86-90, 299-303,         *)
(* 375-404, 427-428).  The form is submitted with no file chosen for        *)
(* upload.                                                                  *)
(***************************************************************************)
\* api.js:563-576
recalculateFolderCountsKeep(files, folders) == folders
recalculateFolderCounts(files, folders) ==
  [i \in DOMAIN folders |->
     [folders[i] EXCEPT
        !.count = Cardinality({j \in DOMAIN files :
                                 /\ ~falsy(files[j].folderId)
                                 /\ files[j].folderId = folders[i].id})]]

\* app.js:121-124  the file carries some selected tag
someSelectedTag(state, f) ==
  \E i \in DOMAIN state.selectedTags :
    arrayIncludes(f.tags, state.selectedTags[i])

\* app.js:130-135  the query occurs in the title, the description or a tag
searchMatch(query, f) ==
  \/ includes(toLowerCase(f.title), query)
  \/ includes(toLowerCase(f.description), query)
  \/ \E t \in DOMAIN f.tags : includes(toLowerCase(f.tags[t]), query)

\* app.js:106-140
applyFiltersCaseSensitive(state) ==
  LET f0 == state.files
      f1 == IF state.typeFilter # "all"
            THEN SelectSeq(f0, LAMBDA f : f.type = state.typeFilter)
            ELSE f0
      f2 == IF ~falsy(state.folderFilter)
            THEN SelectSeq(f1, LAMBDA f : f.folderId = state.folderFilter)
            ELSE f1
      f3 == IF Len(state.selectedTags) > 0
            THEN SelectSeq(f2, LAMBDA f : someSelectedTag(state, f))
            ELSE f2
      f4 == IF state.searchQuery # <<>>
            THEN SelectSeq(f3, LAMBDA f : searchMatch(state.searchQuery, f))
            ELSE f3
  IN  [state EXCEPT !.filteredFiles = f4]
applyFiltersStale(state) ==
  LET f0 == IF state.filteredFiles # <<>> THEN state.filteredFiles
            ELSE state.files
      f1 == IF state.typeFilter # "all"
            THEN SelectSeq(f0, LAMBDA f : f.type = state.typeFilter)
            ELSE f0
      f2 == IF ~falsy(state.folderFilter)
            THEN SelectSeq(f1, LAMBDA f : f.folderId = state.folderFilter)
            ELSE f1
  IN  [state EXCEPT !.filteredFiles = f2]
applyFilters(state) ==
  LET f0 == state.files
      f1 == IF state.typeFilter # "all"
            THEN SelectSeq(f0, LAMBDA f : f.type = state.typeFilter)
            ELSE f0
      f2 == IF ~falsy(state.folderFilter)
            THEN SelectSeq(f1, LAMBDA f : f.folderId = state.folderFilter)
            ELSE f1
      f3 == IF Len(state.selectedTags) > 0
            THEN SelectSeq(f2, LAMBDA f : someSelectedTag(state, f))
            ELSE f2
      f4 == IF state.searchQuery # <<>>
            THEN LET query == toLowerCase(state.searchQuery)
                 IN  SelectSeq(f3, LAMBDA f : searchMatch(query, f))
            ELSE f3
  IN  [state EXCEPT !.filteredFiles = f4]

\* components.js:216-222  the tags the sidebar offers
extractAllTags(files) ==
  UNION {{files[i].tags[t] : t \in DOMAIN files[i].tags} : i \in DOMAIN files}

\* the stores after a call of the data-access layer
storesBecome(e) ==
  /\ remoteFiles' = e.remoteFiles
  /\ remoteFolders' = e.remoteFolders
  /\ localFiles' = e.localFiles
  /\ localFolders' = e.localFolders

\* what the remote store answers to the requests of the handlers
okAnswer == [kind |-> "ok", applied |-> TRUE, message |-> <<>>]
AppAnswers ==
  {a \in ApiAnswers :
     a.kind = "ok" \/ (a.kind = "error" /\ a.message = MsgPermission)}
AppInsertAnswerSeqs ==
  {s \in InsertAnswerSeqs : s[1].kind \in {"rows", "throw"}}
\* an update or delete that changes no row is no error: no row has the id,
\* or the policy of the table hides the rows from the session
\* (api.js:708-724, USING)
okNoRows == [kind |-> "ok", applied |-> FALSE, message |-> <<>>]
AppUpdateAnswers == AppAnswers \cup {okNoRows}

\* app.js:78-97  getFiles and getFolders never throw (api.js:62, 272)
loadData ==
  \E a, a1, a2 \in AppAnswers :
    /\ LET files == getFiles(a).call.files
           folders == getFolders(a1, a2).call.folders
       IN  appState' =
             applyFilters([appState EXCEPT
                             !.files = files,
                             !.folders =
                               recalculateFolderCounts(files, folders)])
    /\ UNCHANGED componentVars
    /\ UNCHANGED <<supabaseClient, remoteFiles, remoteFolders, localFiles,
                   localFolders, lastCall, cf>>

\* the values of the type buttons (data-filter)
TypeFilters == {"all", "pdf"}
\* what is typed into the search box
Queries == {<<>>, <<"A", "b">>, <<"x">>}

\* app.js:146-150
setTypeFilter ==
  \E type \in TypeFilters :
    /\ appState' = applyFilters([appState EXCEPT !.typeFilter = type])
    /\ UNCHANGED componentVars
    /\ UNCHANGED <<supabaseClient, remoteFiles, remoteFolders, localFiles,
                   localFolders, lastCall, cf>>

\* app.js:156-160 as called by the folder buttons (app.js:209-211)
setFolderFilter ==
  \E folderId \in seqIds(appState.folders) :
    /\ appState' =
         applyFilters([appState EXCEPT
                         !.folderFilter =
                           IF appState.folderFilter = folderId THEN null
                           ELSE folderId])
    /\ UNCHANGED componentVars
    /\ UNCHANGED <<supabaseClient, remoteFiles, remoteFolders, localFiles,
                   localFolders, lastCall, cf>>

\* Array.prototype.indexOf: 0 stands for -1
indexOf(arr, x) ==
  IF arrayIncludes(arr, x)
  THEN CHOOSE i \in DOMAIN arr :
         arr[i] = x /\ \A j \in 1..(i - 1) : arr[j] # x
  ELSE 0

\* app.js:166-175 as called by the tag buttons (app.js:220-222)
toggleTagFilter ==
  \E tag \in extractAllTags(appState.files) :
    /\ LET index == indexOf(appState.selectedTags, tag)
           tags == IF index = 0 THEN Append(appState.selectedTags, tag)
                   ELSE SubSeq(appState.selectedTags, 1, index - 1)
                          \o SubSeq(appState.selectedTags, index + 1,
                                    Len(appState.selectedTags))
       IN  appState' = applyFilters([appState EXCEPT !.selectedTags = tags])
    /\ UNCHANGED componentVars
    /\ UNCHANGED <<supabaseClient, remoteFiles, remoteFolders, localFiles,
                   localFolders, lastCall, cf>>

\* app.js:181-184
setSearchQuery ==
  \E query \in Queries :
    /\ appState' = applyFilters([appState EXCEPT !.searchQuery = query])
    /\ UNCHANGED componentVars
    /\ UNCHANGED <<supabaseClient, remoteFiles, remoteFolders, localFiles,
                   localFolders, lastCall, cf>>

\* the handler that takes the file off the list whatever the result is
deleteFileHandledAnyway(fileId, aDel) ==
  /\ LET e == deleteFile(fileId, okAnswer, 0, aDel)
         files == withoutId(appState.files, fileId)
     IN  /\ storesBecome(e)
         /\ appState' =
              applyFilters([appState EXCEPT
                !.files = files,
                !.folders =
                  recalculateFolderCounts(files, appState.folders)])
  /\ UNCHANGED <<supabaseClient, lastCall, cf>>

\* app.js:289-308  the delete button of a listed file; the user confirms; the
\* store answers the delete with one of Answers
deleteFileHandled(fileId, aDel) ==
  /\ LET e == deleteFile(fileId, okAnswer, 0, aDel)
         files == withoutId(appState.files, fileId)
     IN  /\ storesBecome(e)
         /\ appState' =
              IF e.call.result.success
              THEN applyFilters([appState EXCEPT
                     !.files = files,
                     !.folders =
                       recalculateFolderCounts(files, appState.folders)])
              ELSE appState
  /\ UNCHANGED <<supabaseClient, lastCall, cf>>
handleDeleteFileAnswered(Answers) ==
  \E fileId \in seqIds(appState.files), aDel \in Answers :
    deleteFileHandled(fileId, aDel)

handleDeleteFile ==
  handleDeleteFileAnswered(AppAnswers) /\ UNCHANGED componentVars

\* the list and the store written to have room for one more entry
roomForEntry ==
  /\ Len(appState.files) < MaxFiles
  /\ Len(IF supabaseClient THEN remoteFiles ELSE localFiles) < MaxFiles

\* what the dialog holds when the form is submitted: the hidden file id ('' for
\* a new entry), the title as typed, the folder chosen of those offered
\* (components.js:260-270), and the rest
FormTitles(p) == {<<" ">> \o p.title \o <<" ">>, <<" ">>}

\* app.js:314-409  the form is submitted with what its fields hold: the
\* hidden file id ('' for a new entry), the title and description as typed,
\* the type and the folder chosen, the tags of the dialog; no file is chosen
\* for upload, or it was uploaded.  The store answers an update with a, the
\* inserts of a create with answers.
fileFormCall(fileId, rawTitle, type, folderValue, rawDescription, tags, a, answers) ==
  LET fileData ==
        [title |-> trim(rawTitle), description |-> trim(rawDescription),
         type |-> type,
         folderId |-> IF falsy(folderValue) THEN null ELSE folderValue,
         tags |-> tags]
  IN  [fileData |-> fileData,
       e |-> IF ~falsy(fileId) THEN updateFile(fileId, fileData, a)
             ELSE createFile(fileData, answers)]
fileFormSubmitted(fileId, rawTitle, type, folderValue, rawDescription, tags, a, answers) ==
  LET call == fileFormCall(fileId, rawTitle, type, folderValue,
                           rawDescription, tags, a, answers)
      title == call.fileData.title
      fileData == call.fileData
      e == call.e
      result == e.call.result
      index == findIndex(appState.files, fileId)
      files ==
        IF ~falsy(fileId)
        THEN IF index # 0
             THEN [appState.files EXCEPT ![index] = mergeFile(@, fileData)]
             ELSE appState.files
        ELSE <<localFile(result.data.id, fileData)>> \o appState.files
  IN  IF title = <<>>
      THEN UNCHANGED coreVars   \* app.js:324-327
      ELSE /\ falsy(fileId) => roomForEntry
           /\ storesBecome(e)
           /\ appState' =
                IF result.success
                THEN applyFilters([appState EXCEPT
                       !.files = files,
                       !.folders =
                         recalculateFolderCounts(files, appState.folders)])
                ELSE appState
           /\ UNCHANGED <<supabaseClient, lastCall, cf>>

\* the form as the handlers of Spec fill it: for a new entry or for a listed
\* file, with no file chosen for upload; the store answers an update with
\* one of Answers
handleFileFormSubmitAnswered(Answers) ==
  \E fileId \in {null} \cup seqIds(appState.files),
     folderValue \in {null} \cup seqIds(appState.folders) :
   \E p \in {q \in Presets :
               q.type = (IF falsy(fileId) THEN "pdf" ELSE "image")},
      a \in IF falsy(fileId) THEN {okAnswer} ELSE Answers,
      answers \in IF falsy(fileId) THEN AppInsertAnswerSeqs
                  ELSE {<<>>} :
   \E rawTitle \in FormTitles(p) :
     fileFormSubmitted(fileId, rawTitle, p.type, folderValue, p.description,
                       p.tags, a, answers)
handleFileFormSubmit ==
  handleFileFormSubmitAnswered(AppAnswers) /\ UNCHANGED componentVars

roomForCollection ==
  /\ Len(appState.folders) < MaxFolders
  /\ Len(IF supabaseClient THEN remoteFolders ELSE localFolders) < MaxFolders

\* app.js:415-435  what the handler does with the application and the stores
folderFormSubmitted(rawName, a) ==
  LET name == trim(rawName)
      e == createFolder(name, a)
  IN  IF name = <<>>
      THEN UNCHANGED coreVars   \* app.js:420-423
      ELSE /\ roomForCollection
           /\ storesBecome(e)
           /\ appState' =
                IF e.call.result.success
                THEN [appState EXCEPT
                        !.folders = Append(@, e.call.folders[1])]
                ELSE appState
           /\ UNCHANGED <<supabaseClient, lastCall, cf>>
\* the names typed into the folder form
FolderFormNames == {<<" ", "L", "a", "w">>, <<" ">>}
handleFolderFormSubmitStep ==
  \E rawName \in FolderFormNames, a \in AppAnswers :
    folderFormSubmitted(rawName, a)
handleFolderFormSubmit == handleFolderFormSubmitStep /\ UNCHANGED componentVars

\* the page before the client script has loaded: the remote tables hold what
\* earlier sessions left, the local store is empty
Init ==
  /\ supabaseClient \in BOOLEAN
  /\ remoteFolders = <<[id |-> 2 * PoolSize + 1, name |-> <<"A", "r", "t">>]>>
  /\ remoteFiles =
       <<[id |-> 1, title |-> ba, description |-> <<>>, type |-> "pdf",
          folder_id |-> 2 * PoolSize + 1, tags |-> <<tagAB>>]>>
  /\ localFiles = <<>>
  /\ localFolders = <<>>
  /\ appState = appStateInit
  /\ lastCall = noCall
  /\ cf = cfIdle
  /\ componentsIdle

Next ==
  \/ loadData
  \/ setTypeFilter
  \/ setFolderFilter
  \/ toggleTagFilter
  \/ setSearchQuery
  \/ handleDeleteFile
  \/ handleFileFormSubmit
  \/ handleFolderFormSubmit

Spec == Init /\ [][Next]_vars

(***************************************************************************)
(* Claims about createFile (checked under SpecCreate)                       *)
(***************************************************************************)
\* the markers of a failure that is not to be retried, as the specification
\* states them: the lower-cased message contains one of these
NoRetryMarkers ==
  { <<"p", "e", "r", "m", "i", "s", "s", "i", "o", "n">>,
    <<"f", "o", "r", "b", "i", "d", "d", "e", "n">>,
    <<"n", "o", "t", " ", "a", "u", "t", "h", "o", "r", "i", "z", "e", "d">>,
    <<"d", "u", "p", "l", "i", "c", "a", "t", "e">> }
HasNoRetryMarker(ans) ==
  /\ ans.kind = "error"
  /\ \E mk \in NoRetryMarkers : includes(toLowerCase(ans.message), mk)
\* a transient failure: an error without a marker, an exception, no rows
IsTransient(ans) ==
  \/ ans.kind \in {"empty", "throw"}
  \/ ans.kind = "error" /\ ~HasNoRetryMarker(ans)
NumAnswers == Len(cf.answers)

\* C4: with the remote client present, the first attempt (of at most 3) whose
\* insert returns a non-empty row list ends the call with {success: true} and
\* the first returned row as data; in particular transient failures on
\* attempts 1 and 2 followed by rows on attempt 3 give success.
C4_FirstRowsAnswerIsSuccess ==
  (cf.remote /\ NumAnswers >= 1) =>
    /\ NumAnswers <= 3
    /\ \A i \in 1..(NumAnswers - 1) : cf.answers[i].kind # "rows"
    /\ cf.answers[NumAnswers].kind = "rows" =>
         /\ cf.pc = "done"
         /\ cf.result.success
         /\ cf.result.error = undefined
         /\ cf.result.data = Head(remoteFiles)
         /\ cf.result.data = insertRow(cf.result.data.id, cf.fileData)

C4_Witness ==
  /\ cf.remote /\ cf.pc = "done" /\ NumAnswers = 3
  /\ IsTransient(cf.answers[1]) /\ IsTransient(cf.answers[2])
  /\ cf.answers[1].kind = "error" /\ cf.answers[2].kind = "throw"
  /\ cf.answers[3].kind = "rows"
  /\ cf.result.success

\* C5: an insert attempt (the first or a later one) answered with an error
\* whose lower-cased message contains 'permission', 'forbidden',
\* 'not authorized' or 'duplicate' makes createFile return
\* {success: false, error: message} at once: it is the last attempt issued,
\* and no backoff wait follows it.
C5_NoRetryErrorAbortsAtOnce ==
  \A i \in DOMAIN cf.answers :
    HasNoRetryMarker(cf.answers[i]) =>
      /\ i = NumAnswers
      /\ cf.pc = "done"
      /\ ~cf.result.success
      /\ cf.result.error = cf.answers[i].message
      /\ cf.issued = i
      /\ cf.inflight = 0
      /\ Len(cf.waits) = i - 1
      /\ cf.timer = 0

C5_Witness ==
  /\ cf.pc = "done" /\ NumAnswers = 2
  /\ IsTransient(cf.answers[1])
  /\ cf.answers[2].kind = "error" /\ cf.answers[2].message = MsgForbidden
  /\ ~cf.result.success

\* the message of the last of three failed attempts
AllAttemptsFailed ==
  /\ cf.remote /\ cf.pc = "done" /\ NumAnswers = 3
  /\ \A i \in 1..3 : IsTransient(cf.answers[i])
LastFailureMessage ==
  IF cf.answers[3].kind = "empty" THEN MsgEmptyResponse
  ELSE cf.answers[3].message

\* C6 as stated: at most 3 insert attempts per call, and when all 3 fail
\* transiently the result is {success: false} whose error is the message of
\* the last failure.
C6_ErrorIsLastFailureMessage ==
  /\ cf.issued <= 3
  /\ AllAttemptsFailed =>
       /\ ~cf.result.success
       /\ cf.result.error = LastFailureMessage

\* C6 amended: every call of createFile ends after at most 3 insert attempts
\* (an unfinished call can always take its next step, and issues no fourth
\* insert); when all 3 fail transiently the result is {success: false} whose
\* error is the message of the last failure when that message is not empty
\* ('Empty response from insert' when the last attempt returned no rows) and
\* the JSON text of the last error object when its message is empty.
C6_AtMostThreeAttempts ==
  /\ cf.issued <= 3
  /\ NumAnswers <= cf.issued
  /\ cf.pc \in {"session", "insert", "wait"} => ENABLED createFileStep
  /\ cf.pc = "done" => ~ENABLED createFileStep
  /\ AllAttemptsFailed =>
       /\ ~cf.result.success
       /\ cf.result.error =
            IF LastFailureMessage # <<>> THEN LastFailureMessage
            ELSE JSONstringify(errorObj(cf.answers[3].message))

C6_Witness ==
  /\ AllAttemptsFailed
  /\ cf.answers[3].kind = "error" /\ cf.answers[3].message = <<>>
  /\ cf.issued = 3

WriteOps ==
  {"createFile", "updateFile", "deleteFile", "createFolder", "deleteFolder"}

\* the answer that decided the last call: the answer to its last request
DecidingAnswer == lastCall.answers[Len(lastCall.answers)]
AnsweredOk(a) == a.kind \in {"ok", "rows"}

\* C8: while the remote client is not initialized, every call of getFiles,
\* createFile, updateFile, deleteFile, getFolders, createFolder and
\* deleteFolder issues no remote request, leaves the remote tables as they
\* are and reads or writes the local store (getFiles and getFolders return
\* its content); once the client is initialized every call issues a remote
\* request, leaves the local store as it is, and a read that is answered
\* returns the remote rows.
C8_LocalOnlyWithoutClient ==
  [][/\ ~supabaseClient =>
          /\ remoteFiles' = remoteFiles
          /\ remoteFolders' = remoteFolders
     /\ (~supabaseClient /\ ~supabaseClient' /\ lastCall'.op # "none") =>
          /\ ~lastCall'.client
          /\ lastCall'.requests = 0
          /\ lastCall'.answers = <<>>
          /\ lastCall'.local
          /\ lastCall'.op = "getFiles" => lastCall'.files = localFiles
          /\ lastCall'.op = "getFolders" => lastCall'.folders = localFolders
     /\ supabaseClient =>
          /\ lastCall'.client
          /\ lastCall'.requests >= 1
          /\ localFiles' = localFiles
          /\ localFolders' = localFolders
          /\ (lastCall'.op = "getFiles" /\ lastCall'.answers[1].kind = "ok")
               => lastCall'.files = mapRows(remoteFiles)
    ]_vars

\* an entry was created in the local store while there was no client; the
\* client has been initialized since, and getFiles has read the remote table
C8_Witness ==
  /\ localFiles # <<>>
  /\ lastCall.client
  /\ lastCall.op = "getFiles"
  /\ lastCall.requests = 1
  /\ ~lastCall.local
  /\ lastCall.files = mapRows(remoteFiles)
  /\ lastCall.files # localFiles

\* a write that failed returned {success: false, error} and did not use the
\* local store
FailedWriteReportsFailure ==
  (lastCall.client /\ lastCall.op \in WriteOps
     /\ ~AnsweredOk(DecidingAnswer)) =>
    /\ lastCall.outcome = "result"
    /\ ~lastCall.result.success
    /\ lastCall.result.error # undefined
    /\ ~lastCall.local

\* C9 (as stated): with the client present, a getFiles or getFolders call one
\* of whose queries returned an error or threw has returned the content of
\* the local store, and a failed write has returned {success: false, error}
\* without using the local store.
C9_FailedReadReturnsLocalStore ==
  /\ (lastCall.client /\ lastCall.op = "getFiles"
        /\ \E i \in DOMAIN lastCall.answers : lastCall.answers[i].kind # "ok")
       => (lastCall.local /\ lastCall.files = localFiles)
  /\ (lastCall.client /\ lastCall.op = "getFolders"
        /\ \E i \in DOMAIN lastCall.answers : lastCall.answers[i].kind # "ok")
       => (lastCall.local /\ lastCall.folders = localFolders)
  /\ FailedWriteReportsFailure

\* C9 (what the code does): as above, except that an error returned by the
\* second query of getFolders (the folder references of the files, from
\* which the counts are made) is not looked at: the call then returns the
\* remote folders, each with count 0.
C9_FailedReadReturnsLocalStoreButCountError ==
  /\ (lastCall.client /\ lastCall.op = "getFiles"
        /\ lastCall.answers[1].kind # "ok")
       => (lastCall.local /\ lastCall.files = localFiles)
  /\ (lastCall.client /\ lastCall.op = "getFolders"
        /\ \/ lastCall.answers[1].kind # "ok"
           \/ (Len(lastCall.answers) = 2
                 /\ lastCall.answers[2].kind = "throw"))
       => (lastCall.local /\ lastCall.folders = localFolders)
  /\ (lastCall.client /\ lastCall.op = "getFolders"
        /\ Len(lastCall.answers) = 2
        /\ lastCall.answers[2].kind = "error")
       => /\ ~lastCall.local
          /\ Len(lastCall.folders) = Len(remoteFolders)
          /\ \A i \in DOMAIN lastCall.folders :
               /\ lastCall.folders[i].id = remoteFolders[i].id
               /\ lastCall.folders[i].count = 0
  /\ FailedWriteReportsFailure

\* the count query of getFolders returned an error while the remote table
\* holds a folder that a file references and the local store holds none
C9_Witness ==
  /\ lastCall.client
  /\ lastCall.op = "getFolders"
  /\ Len(lastCall.answers) = 2
  /\ lastCall.answers[1].kind = "ok"
  /\ lastCall.answers[2].kind = "error"
  /\ lastCall.folders # localFolders
  /\ \E i \in DOMAIN remoteFiles, j \in DOMAIN lastCall.folders :
       remoteFiles[i].folder_id = lastCall.folders[j].id

\* C10: with the client present, createFile, updateFile, deleteFile,
\* createFolder and deleteFolder end with a result object whatever the remote
\* store answered (never with an exception); when the request that decides
\* the call was answered with an error or threw, the result has success =
\* false and carries the error's message; success = true is returned only
\* when that request was answered without error.
C10_WritesReturnResultObjects ==
  (lastCall.client /\ lastCall.op \in WriteOps) =>
    /\ lastCall.outcome = "result"
    /\ ~AnsweredOk(DecidingAnswer) =>
         /\ ~lastCall.result.success
         /\ lastCall.result.error # undefined
         /\ lastCall.op # "createFile" =>
              lastCall.result.error = DecidingAnswer.message
    /\ lastCall.result.success =>
         /\ AnsweredOk(DecidingAnswer)
         /\ lastCall.result.error = undefined

\* the update request threw: updateFile returned {success: false, error}
C10_Witness ==
  /\ lastCall.client
  /\ lastCall.op = "updateFile"
  /\ lastCall.answers[1].kind = "throw"
  /\ lastCall.outcome = "result"
  /\ ~lastCall.result.success
  /\ lastCall.result.error = MsgFetch

(***************************************************************************)
(* Claims about the application state (checked under Spec)                  *)
(***************************************************************************)
\* the number of the listed files that reference the folder
references(folderId) ==
  Cardinality({j \in DOMAIN appState.files :
                 appState.files[j].folderId = folderId})

\* C1: after any sequence of loadData, file create / update / delete through
\* the form and delete handlers, and folder creation, every folder of
\* appState.folders has count equal to the number of files of appState.files
\* whose folderId is the folder's id.
C1_FolderCountsAreReferenceCounts ==
  \A i \in DOMAIN appState.folders :
    appState.folders[i].count = references(appState.folders[i].id)

\* two folders are listed, one of them created through the form, and one is
\* referenced by two files, one of which was added through the form
C1_Witness ==
  /\ Len(appState.folders) = 2
  /\ Len(appState.files) = 2
  /\ \E i \in DOMAIN appState.folders : appState.folders[i].count = 2
  /\ \E i \in DOMAIN appState.folders : appState.folders[i].count = 0

\* the file passes the four filters of the state
Matches(f) ==
  /\ appState.typeFilter = "all" \/ f.type = appState.typeFilter
  /\ appState.folderFilter = null \/ f.folderId = appState.folderFilter
  /\ \/ appState.selectedTags = <<>>
     \/ \E i \in DOMAIN appState.selectedTags, t \in DOMAIN f.tags :
          f.tags[t] = appState.selectedTags[i]
  /\ \/ appState.searchQuery = <<>>
     \/ LET q == toLowerCase(appState.searchQuery)
        IN  \/ includes(toLowerCase(f.title), q)
            \/ includes(toLowerCase(f.description), q)
            \/ \E t \in DOMAIN f.tags : includes(toLowerCase(f.tags[t]), q)

\* C2: after every filter change and every file create / update / delete,
\* appState.filteredFiles is exactly the sub-sequence, in the order of
\* appState.files, of the files whose type is typeFilter (any when 'all'),
\* whose folderId is folderFilter (any when null), that carry at least one
\* selected tag (any when none is selected) and whose lower-cased title,
\* description or some tag contains the lower-cased query (any when empty).
C2_FilteredIsTheMatchingSubsequence ==
  appState.filteredFiles = SelectSeq(appState.files, Matches)

\* two files are listed, a tag is selected and a query is typed in capitals:
\* one file passes, by a tag in capitals that contains the query
C2_Witness ==
  /\ Len(appState.files) = 2
  /\ Len(appState.filteredFiles) = 1
  /\ appState.selectedTags # <<>>
  /\ appState.searchQuery = <<"A", "b">>
  /\ ~includes(toLowerCase(appState.filteredFiles[1].title), <<"a", "b">>)
  /\ appState.filteredFiles[1].tags = <<tagAB>>

\* the number of times the file occurs in the list
occurrences(list, f) == Cardinality({i \in DOMAIN list : list[i] = f})

\* C3: every file of appState.filteredFiles is a file of appState.files,
\* unaltered and no more often than it occurs there, and applyFilters leaves
\* appState.files as it is.
C3_FilteredWithinFiles ==
  /\ \A i \in DOMAIN appState.filteredFiles :
       LET f == appState.filteredFiles[i]
       IN  /\ occurrences(appState.files, f) >= 1
           /\ occurrences(appState.filteredFiles, f)
                <= occurrences(appState.files, f)
  /\ applyFilters(appState).files = appState.files

\* a type and a folder are chosen; of the two files listed, both of the
\* type, the one in the folder passes
C3_Witness ==
  /\ appState.typeFilter = "pdf"
  /\ appState.folderFilter # null
  /\ Len(appState.files) = 2
  /\ \A i \in DOMAIN appState.files : appState.files[i].type = "pdf"
  /\ Len(appState.filteredFiles) = 1

(***************************************************************************)
(* The local store as it is kept: JSON text in localStorage                 *)
(* (api.js:472-503), checked under SpecStorage.  The files carry the fields *)
(* of fileData that differ in kind (a string, a string or null, a string or *)
(* undefined, an array of strings) and the two timestamps.                  *)
(***************************************************************************)
\* the most files the stored text holds
MaxStored == 2
\* the latest time, in ms, the clock of the model reaches
MaxClock == 1200

\* the values of JavaScript that the fields of a file take
jsString(s) == [k |-> "string", s |-> s, n |-> 0, a |-> <<>>]
jsNull == [k |-> "null", s |-> <<>>, n |-> 0, a |-> <<>>]
jsUndefined == [k |-> "undefined", s |-> <<>>, n |-> 0, a |-> <<>>]
jsArray(a) == [k |-> "array", s |-> <<>>, n |-> 0, a |-> a]
\* a Date with its time value in ms; -1 stands for NaN (Invalid Date)
jsDate(ms) == [k |-> "date", s |-> <<>>, n |-> ms, a |-> <<>>]
\* a property the object does not have
absent == [k |-> "absent", s |-> <<>>, n |-> 0, a |-> <<>>]

\* obj.key: a property the object does not have reads as undefined
get(obj, key) == IF obj[key].k = "absent" THEN jsUndefined ELSE obj[key]

Digits == <<"0", "1", "2", "3", "4", "5", "6", "7", "8", "9">>
isDigit(c) == \E i \in DOMAIN Digits : Digits[i] = c
digitValue(c) == (CHOOSE i \in DOMAIN Digits : Digits[i] = c) - 1

\* the decimal text of a natural number
RECURSIVE decimal(_)
decimal(n) ==
  IF n < 10 THEN <<Digits[n + 1]>>
  ELSE decimal(n \div 10) \o <<Digits[(n % 10) + 1]>>

\* the number a decimal text stands for
RECURSIVE numberOf(_)
numberOf(s) ==
  IF s = <<>> THEN 0
  ELSE numberOf(SubSeq(s, 1, Len(s) - 1)) * 10 + digitValue(s[Len(s)])

\* Date.prototype.toISOString: the date and time of day of the instant, here
\* its whole seconds, then '.', the milliseconds in three digits, and 'Z'
toISOStringSeconds(ms) == decimal(ms \div 1000) \o <<".", "0", "0", "0", "Z">>
toISOString(ms) ==
  decimal(ms \div 1000)
    \o <<".", Digits[((ms % 1000) \div 100) + 1],
         Digits[((ms % 100) \div 10) + 1], Digits[(ms % 10) + 1], "Z">>

\* Date.parse of a text: its instant in ms, or -1 (NaN) when it is not in
\* the format of toISOString
dateParse(s) ==
  LET len == Len(s)
  IN  IF /\ len >= 6
         /\ s[len] = "Z"
         /\ s[len - 4] = "."
         /\ \A i \in (1..(len - 5)) \cup ((len - 3)..(len - 1)) : isDigit(s[i])
      THEN numberOf(SubSeq(s, 1, len - 5)) * 1000
             + numberOf(SubSeq(s, len - 3, len - 1))
      ELSE -1

\* new Date(value)
newDate(v) ==
  CASE v.k = "string" -> jsDate(dateParse(v.s))
    [] v.k = "date" -> v
    [] v.k = "null" -> jsDate(0)
    [] OTHER -> jsDate(-1)

\* JSON.stringify of a property value, read back by JSON.parse: a Date is
\* written as the text of its toJSON (null when invalid), undefined is not
\* written at all, strings, null and arrays of strings come back as they are
throughJSON(v) ==
  CASE v.k = "date" ->
         IF v.n < 0 THEN jsNull ELSE jsString(toISOString(v.n))
    [] v.k = "undefined" -> absent
    [] OTHER -> v

\* the properties of a stored file
DataKeys == {"title", "description", "type", "folderId", "tags", "fileUrl"}
FileKeys == {"id", "createdAt", "updatedAt"} \cup DataKeys

\* api.js:488-490 and 476  JSON.parse(JSON.stringify(files))
saveFilesToLocalStorage(files) ==
  [i \in DOMAIN files |-> [key \in FileKeys |-> throughJSON(files[i][key])]]

\* api.js:472-486  the files of the item, with the timestamps made Dates; no
\* files when there is no item or its text does not parse
parseStoredFiles(item) ==
  IF item.corrupt THEN <<>>
  ELSE [i \in DOMAIN item.files |->
          [item.files[i] EXCEPT !.createdAt = newDate(item.files[i].createdAt),
                                !.updatedAt = newDate(item.files[i].updatedAt)]]

\* the fileData objects saved (app.js:357-368)
StoredFileDatas ==
  {[key \in DataKeys |->
      CASE key = "title" -> jsString(Ab)
        [] key = "description" -> jsString(ba)
        [] key = "type" -> jsString(<<"p", "d", "f">>)
        [] key = "folderId" -> f
        [] key = "tags" -> jsArray(t)
        [] OTHER -> u] :
     f \in {jsNull, jsString(<<"7">>)},
     t \in {<<>>, <<tagX, tagAB>>},
     u \in {jsUndefined, jsString(<<"u">>)}}

\* crypto.randomUUID: an identifier no stored file has
storedIds(files) == {files[i].id : i \in DOMAIN files}
randomUUID(files) ==
  jsString(decimal(CHOOSE n \in 1..(MaxStored + 1) :
                     /\ jsString(decimal(n)) \notin storedIds(files)
                     /\ \A m \in 1..(n - 1) :
                          jsString(decimal(m)) \in storedIds(files)))

\* api.js:494-499  {id, ...fileData, createdAt, updatedAt}
newFileObject(id, fileData, now) ==
  [key \in FileKeys |->
     CASE key = "id" -> id
       [] key \in {"createdAt", "updatedAt"} -> jsDate(now)
       [] OTHER -> fileData[key]]

\* api.js:492-503  createFileInLocalStorage, with what it keeps
storageCreate ==
  \E fileData \in StoredFileDatas :
    LET files == parseStoredFiles(storage.item)
        newFile == newFileObject(randomUUID(files), fileData, storage.now)
    IN  /\ Len(files) < MaxStored
        /\ storage' =
             [storage EXCEPT
                !.item = [corrupt |-> FALSE,
                          files |-> saveFilesToLocalStorage(<<newFile>> \o files)],
                !.pc = "created", !.fileData = fileData,
                !.created = <<newFile>>, !.read = <<>>]
        /\ UNCHANGED besidesStorage

\* api.js:472-486  getFilesFromLocalStorage, from the text kept
storageRead ==
  /\ storage.pc \in {"created", "read"}
  /\ storage' = [storage EXCEPT !.pc = "read",
                                !.read = parseStoredFiles(storage.item)]
  /\ UNCHANGED besidesStorage

\* api.js:516-521  deleteFileFromLocalStorage of the newest file
storageDelete ==
  LET files == parseStoredFiles(storage.item)
  IN  /\ files # <<>>
      /\ storage' =
           [storage EXCEPT
              !.item = [corrupt |-> FALSE,
                        files |-> saveFilesToLocalStorage(Tail(files))],
              !.pc = "idle", !.created = <<>>, !.read = <<>>]
      /\ UNCHANGED besidesStorage

\* time passes
storageTick ==
  \E d \in {90, 1005} :
    /\ storage.now + d <= MaxClock
    /\ storage' = [storage EXCEPT !.now = @ + d]
    /\ UNCHANGED besidesStorage

\* the item is missing (as an empty list) or holds text that does not parse
InitStorage ==
  /\ supabaseClient = FALSE
  /\ remoteFiles = <<>>
  /\ remoteFolders = <<>>
  /\ localFiles = <<>>
  /\ localFolders = <<>>
  /\ appState = appStateInit
  /\ lastCall = noCall
  /\ cf = cfIdle
  /\ \E c \in BOOLEAN :
       storage = [storageIdle EXCEPT !.item = [corrupt |-> c, files |-> <<>>]]
  /\ session = sessionIdle
  /\ tagList = tagListIdle
  /\ dialog = dialogClosed
  /\ auth = authIdle
  /\ upload = uploadIdle
  /\ search = searchIdle
  /\ flight = flightIdle
  /\ lastWrite = lastWriteIdle
  /\ removal = removalIdle
  /\ account = accountIdle
  /\ startup = startupIdle

NextStorage ==
  \/ storageCreate
  \/ storageRead
  \/ storageDelete
  \/ storageTick

SpecStorage == InitStorage /\ [][NextStorage]_vars

\* C11: in local fallback mode, reading the files right after a create gives
\* a list whose first element has the id the create returned and, property
\* by property, the data that was saved (a property saved as undefined reads
\* as undefined); its two timestamps are Dates of the instants of the create.
C11_CreateThenReadRoundTrip ==
  storage.pc = "read" =>
    /\ storage.read # <<>>
    /\ LET file == storage.read[1]
           made == storage.created[1]
       IN  /\ get(file, "id") = get(made, "id")
           /\ \A key \in DataKeys :
                /\ get(file, key) = get(made, key)
                /\ get(file, key) = get(storage.fileData, key)
           /\ \A key \in {"createdAt", "updatedAt"} :
                /\ file[key].k = "date"
                /\ made[key].k = "date"
                /\ file[key].n = made[key].n
                /\ file[key].n >= 0

\* a file saved with an undefined fileUrl, null folderId and two tags, at an
\* instant with milliseconds below 100, over a file already stored, is read
C11_Witness ==
  /\ storage.pc = "read"
  /\ Len(storage.read) = 2
  /\ storage.fileData["fileUrl"] = jsUndefined
  /\ storage.read[1]["fileUrl"] = absent
  /\ storage.read[1]["folderId"] = jsNull
  /\ storage.read[1]["tags"] = jsArray(<<tagX, tagAB>>)
  /\ storage.read[1]["createdAt"].n % 1000 \in 1..99
  /\ storage.read[2]["createdAt"].n < storage.read[1]["createdAt"].n

(***************************************************************************)
(* The handlers under the access policies of the tables (SpecAccess):       *)
(* the application with a remote client, the session of auth.js and the     *)
(* profile row the policies read (api.js:664-724).                          *)
(***************************************************************************)
\* the policies let the request of the session write (auth.uid() is the
\* id of a profile with is_admin)
sessionIsAdmin == session.currentUser /\ session.profileIsAdmin

\* api.js:664-724  the tables take no insert, update or delete of a session
\* that is not an administrator's: an insert is answered with an error, an
\* update or delete finds no row it may change
rowSecurity == ~sessionIsAdmin => UNCHANGED <<remoteFiles, remoteFolders>>

\* auth.js:152-173, 204-236  sign-in; checkAdminStatus reads profiles.is_admin
signIn ==
  /\ ~session.currentUser
  /\ session' = [session EXCEPT !.currentUser = TRUE,
                                !.isAdmin = session.profileIsAdmin]
  /\ UNCHANGED besidesSession

\* auth.js:180-197, 44-49
signOut ==
  /\ session.currentUser
  /\ session' = [session EXCEPT !.currentUser = FALSE, !.isAdmin = FALSE]
  /\ UNCHANGED besidesSession

\* is_admin of the profile row is set or cleared in the database (it is
\* read by the client at sign-in only, auth.js:204-236)
setProfileIsAdmin ==
  /\ session' = [session EXCEPT !.profileIsAdmin = ~@]
  /\ UNCHANGED besidesSession

\* what a write did, as seen from outside: whether the session was an
\* administrator's, and whether the tables and the lists of appState changed
written(admin, stores, files, folders, added) ==
  [issued |-> TRUE, admin |-> admin, stores |-> stores, files |-> files,
   folders |-> folders, added |-> added]

\* the handlers that write; their controls are shown while isAdmin
\* (auth.js:357-362, app.js:194)
adminHandler ==
  /\ session.isAdmin
  /\ \/ handleDeleteFileAnswered(AppUpdateAnswers)
     \/ handleFileFormSubmitAnswered(AppUpdateAnswers)
     \/ handleFolderFormSubmitStep
  /\ rowSecurity
  /\ session' =
       [session EXCEPT !.write =
          written(sessionIsAdmin,
                  <<remoteFiles, remoteFolders, localFiles, localFolders>>'
                    # <<remoteFiles, remoteFolders, localFiles, localFolders>>,
                  appState'.files # appState.files,
                  appState'.folders # appState.folders,
                  \/ ~(seqIds(appState'.files) \subseteq seqIds(appState.files))
                  \/ seqIds(appState'.folders) # seqIds(appState.folders))]
  /\ UNCHANGED 
       <<storage, tagList, dialog, auth, upload, search, flight, lastWrite,
         removal, account, startup>>

InitAccess ==
  /\ supabaseClient = TRUE
  /\ remoteFolders = <<[id |-> 2 * PoolSize + 1, name |-> <<"A", "r", "t">>]>>
  /\ remoteFiles =
       <<[id |-> 1, title |-> ba, description |-> <<>>, type |-> "pdf",
          folder_id |-> 2 * PoolSize + 1, tags |-> <<tagAB>>]>>
  /\ localFiles = <<>>
  /\ localFolders = <<>>
  /\ appState = appStateInit
  /\ lastCall = noCall
  /\ cf = cfIdle
  /\ componentsIdle

NextAccess ==
  \/ loadData
  \/ signIn
  \/ signOut
  \/ setProfileIsAdmin
  \/ adminHandler

SpecAccess == InitAccess /\ [][NextAccess]_vars

\* the last write was issued while the session was absent or not an
\* administrator's
DeniedWrite == session.write.issued /\ ~session.write.admin

\* C12 as stated: a write issued while the session is absent or not an
\* administrator's changes neither the stored files and folders nor
\* appState.files and appState.folders.
C12_OnlyAdminSessionsWrite ==
  DeniedWrite =>
    ~session.write.stores /\ ~session.write.files /\ ~session.write.folders

\* C12, the part that holds: a write issued while the session is absent or
\* not an administrator's changes no stored file or folder, and adds no file
\* and no folder to the lists of appState (it may change or remove a file of
\* appState.files, and with it the counts of appState.folders, while the
\* table keeps the row as it was).
C12_NonAdminWritesLeaveTheStores ==
  DeniedWrite => ~session.write.stores /\ ~session.write.added

\* the profile is no administrator's any more, the page still shows the
\* controls, and a write of the session changed appState.files and the
\* counts of appState.folders but not the tables
C12_Witness ==
  /\ DeniedWrite
  /\ session.isAdmin
  /\ session.write.files
  /\ session.write.folders
  /\ ~session.write.stores

(***************************************************************************)
(* Claims about deleteFolder (checked under SpecApi)                        *)
(***************************************************************************)
\* the step is a call of deleteFolder that returns {success: true}
FolderDeleted ==
  /\ supabaseClient' = supabaseClient
  /\ lastCall'.op = "deleteFolder"
  /\ lastCall'.result.success

\* the files of a store before and after: none is deleted, and those that
\* referenced the folder reference none
Detached(before, after, id) ==
  /\ Len(after) = Len(before)
  /\ \A i \in DOMAIN before :
       after[i] =
         [before[i] EXCEPT !.folderId = IF @ = id THEN null ELSE @]

\* C13 as stated: after deleteFolder(id) succeeds no file has been deleted
\* and every file that referenced id references no folder, in the remote
\* store and in the local fallback store alike.
C13_DeleteFolderDetachesFiles ==
  [][FolderDeleted =>
       IF lastCall'.local
       THEN Detached(localFiles, localFiles', lastCall'.id)
       ELSE Detached(mapRows(remoteFiles), mapRows(remoteFiles'),
                     lastCall'.id)]_vars

\* C13, the part that holds: a deleteFolder(id) that succeeds deletes no
\* file of either store; in the remote store every row that referenced id
\* is detached; the local fallback store leaves its files as they are,
\* references to id included.
C13_RemoteDeleteFolderDetachesFiles ==
  [][FolderDeleted =>
       IF lastCall'.local
       THEN localFiles' = localFiles
       ELSE Detached(mapRows(remoteFiles), mapRows(remoteFiles'),
                     lastCall'.id)]_vars

\* the folder of the remote row was deleted with success: the row is kept
\* and references no folder
C13_Witness ==
  /\ lastCall.op = "deleteFolder"
  /\ lastCall.result.success
  /\ ~lastCall.local
  /\ lastCall.id = 2 * PoolSize + 1
  /\ remoteFolders = <<>>
  /\ Len(remoteFiles) = 1
  /\ remoteFiles[1].folder_id = null

(***************************************************************************)
(* The tags of the file dialog: components.js:348-409 (SpecTags)            *)
(***************************************************************************)
\* the most tags the list of the dialog holds
MaxTags == 3

\* what is typed into the tag input
TagInputs ==
  {<<>>, <<" ">>, <<" ", " ">>, tagX, <<" ", "X", " ">>, tagAB,
   <<"a", "b", " ">>, <<"y">>}

\* components.js:354-360  the list after addTagToList(tag)
addTagToListNoFold(currentTags, tag) ==
  LET trimmed == trim(tag)
  IN  IF trimmed = <<>> \/ arrayIncludes(currentTags, trimmed)
      THEN currentTags
      ELSE Append(currentTags, trimmed)
addTagToList(currentTags, tag) ==
  LET trimmed == toLowerCase(trim(tag))
  IN  IF trimmed = <<>> \/ arrayIncludes(currentTags, trimmed)
      THEN currentTags
      ELSE Append(currentTags, trimmed)

\* components.js:366-369
removeTagFromList(currentTags, tag) ==
  SelectSeq(currentTags, LAMBDA t : t # tag)

\* app.js:564-575  the add button, or Enter in the tag input
tagAdded ==
  \E tag \in TagInputs :
    LET tags == addTagToList(tagList.currentTags, tag)
    IN  /\ Len(tags) <= MaxTags
        /\ tagList' =
             [currentTags |-> tags,
              inputs |-> IF tagList.inputs = <<>> THEN <<tag>>
                         ELSE <<tagList.inputs[Len(tagList.inputs)], tag>>,
              before |-> tagList.currentTags]
        /\ UNCHANGED besidesTagList

\* components.js:393-397  the remove button of a tag
tagRemoved ==
  \E i \in DOMAIN tagList.currentTags :
    /\ tagList' =
         [currentTags |->
            removeTagFromList(tagList.currentTags, tagList.currentTags[i]),
          inputs |-> <<>>, before |-> <<>>]
    /\ UNCHANGED besidesTagList

\* components.js:374-377  clearFileTags, when the dialog is opened
tagsCleared ==
  /\ tagList' = tagListIdle
  /\ UNCHANGED besidesTagList

InitTags ==
  /\ supabaseClient = FALSE
  /\ remoteFiles = <<>>
  /\ remoteFolders = <<>>
  /\ localFiles = <<>>
  /\ localFolders = <<>>
  /\ appState = appStateInit
  /\ lastCall = noCall
  /\ cf = cfIdle
  /\ componentsIdle

NextTags ==
  \/ tagAdded
  \/ tagRemoved
  \/ tagsCleared

SpecTags == InitTags /\ [][NextTags]_vars

\* the tag that an input stands for: lower case, without the white space
\* around it
foldedTag(s) == trim(toLowerCase(s))

\* C14: when addTagToList(s) is followed by addTagToList(t) with
\* trim(lowercase(s)) = trim(lowercase(t)), the second leaves the list as the
\* first left it, with exactly one entry for the tag; adding an empty or
\* white-space-only string changes nothing.
C14_AddTagIsIdempotent ==
  /\ (tagList.inputs # <<>>
        /\ foldedTag(tagList.inputs[Len(tagList.inputs)]) = <<>>)
       => tagList.currentTags = tagList.before
  /\ (Len(tagList.inputs) = 2
        /\ foldedTag(tagList.inputs[1]) = foldedTag(tagList.inputs[2]))
       => /\ tagList.currentTags = tagList.before
          /\ foldedTag(tagList.inputs[2]) # <<>> =>
               occurrences(tagList.currentTags,
                           foldedTag(tagList.inputs[2])) = 1

\* ' X ' was added after 'x', to a list that held another tag before
C14_Witness ==
  /\ tagList.inputs = <<tagX, <<" ", "X", " ">>>>
  /\ tagList.currentTags = <<<<"a", "b">>, tagX>>
  /\ tagList.before = tagList.currentTags

(***************************************************************************)
(* The file dialog over the application and the stores (SpecDialog):        *)
(* components.js:233-409 and app.js:268-409.  The stores hold at first      *)
(* nothing; what they hold later went through the dialog.                   *)
(***************************************************************************)
\* the most entries made through the dialog
DialogMaxFiles == 1

\* api.js:621  the types the files table takes
FileTypes == {"document", "pdf", "image", "notice"}

\* HTMLSelectElement.value = v on the type select: an option with the value
\* is selected, or none is and the value reads ''
selectValue(v) ==
  IF v \in FileTypes \/ (v = "audio" /\ dialog.audioOption) THEN v ELSE ""

\* components.js:239-277  openFileDialog(null, folders)
handleAddEntry ==
  /\ ~dialog.open
  /\ dialog' = [dialogClosed EXCEPT !.open = TRUE,
                                    !.submitted = dialog.submitted,
                                    !.audioOption = dialog.audioOption]
  /\ UNCHANGED <<coreVars, besidesDialog>>

\* the tags of a file added one by one (components.js:261)
RECURSIVE addTagsToList(_, _)
addTagsToList(currentTags, tags) ==
  IF tags = <<>> THEN currentTags
  ELSE addTagsToList(addTagToList(currentTags, Head(tags)), Tail(tags))

\* app.js:277-283, components.js:239-277  openFileDialog(file, folders)
handleEditFile ==
  \E i \in DOMAIN appState.files :
    LET file == appState.files[i]
    IN  /\ ~dialog.open
        /\ dialog' =
             [dialog EXCEPT
                !.open = TRUE, !.fileId = file.id,
                !.type = selectValue(IF file.type = "" THEN "document"
                                     ELSE file.type),
                !.currentTags = addTagsToList(<<>>, file.tags),
                !.selectedFile = FALSE]
        /\ UNCHANGED <<coreVars, besidesDialog>>

\* app.js:564-575  a tag is typed and added
dialogTagAdded ==
  \E tag \in {tagX, <<" ", "X", " ">>, tagAB} :
    LET tags == addTagToList(dialog.currentTags, tag)
    IN  /\ dialog.open
        /\ Len(tags) < MaxTags
        /\ dialog' = [dialog EXCEPT !.currentTags = tags]
        /\ UNCHANGED <<coreVars, besidesDialog>>

\* components.js:393-397
dialogTagRemoved ==
  \E i \in DOMAIN dialog.currentTags :
    /\ dialog.open
    /\ dialog' =
         [dialog EXCEPT
            !.currentTags = removeTagFromList(@, dialog.currentTags[i])]
    /\ UNCHANGED <<coreVars, besidesDialog>>

\* the user picks an option of the type select
typeChosen ==
  \E type \in {"notice"} :
    /\ dialog.open
    /\ dialog' = [dialog EXCEPT !.type = type]
    /\ UNCHANGED <<coreVars, besidesDialog>>

\* the extensions of the files chosen for upload
Extensions == {"pdf", "mp3", "zip"}

\* components.js:323-342  the type the extension of the file selects, if any
handleFileSelect(ext, type) ==
  CASE ext \in {"pdf"} -> selectValue("pdf")
    [] ext \in {"jpg", "jpeg", "png", "gif", "webp", "svg"} ->
         selectValue("image")
    [] ext \in {"mp3", "wav", "ogg", "aac", "m4a", "flac", "wma"} ->
         selectValue("audio")
    [] ext \in {"doc", "docx", "txt", "rtf", "odt"} -> selectValue("document")
    [] OTHER -> type

\* app.js:555-558  a file is chosen in the file input
fileSelected ==
  \E ext \in Extensions :
    /\ dialog.open
    /\ dialog' = [dialog EXCEPT !.selectedFile = TRUE,
                                !.type = handleFileSelect(ext, dialog.type)]
    /\ UNCHANGED <<coreVars, besidesDialog>>

\* api.js:621  the table takes no row whose type is not one of the four
typeChecked == dialog.type \notin FileTypes => UNCHANGED remoteFiles

\* app.js:314-409  the form of the dialog is submitted; a file chosen is
\* uploaded first (api.js:343-420: without a client the upload succeeds)
dialogSubmitted ==
  \E uploaded \in {TRUE} \cup {supabaseClient = FALSE},
     a \in AppAnswers, answers \in AppInsertAnswerSeqs :
    LET call == fileFormCall(dialog.fileId, Ab, dialog.type, null, <<>>,
                             dialog.currentTags, a, answers)
    IN  /\ dialog.open
        /\ falsy(dialog.fileId) =>
             /\ Len(appState.files) < DialogMaxFiles
             /\ Len(remoteFiles) < DialogMaxFiles
             /\ Len(localFiles) < DialogMaxFiles
        /\ IF dialog.selectedFile /\ ~uploaded
           THEN UNCHANGED <<coreVars, dialog>>   \* app.js:348-351
           ELSE /\ fileFormSubmitted(dialog.fileId, Ab, dialog.type, null,
                                     <<>>, dialog.currentTags, a, answers)
                /\ typeChecked
                /\ dialog' =
                     IF call.e.call.result.success   \* app.js:401-405
                     THEN [dialogClosed EXCEPT
                             !.submitted = dialog.type,
                             !.audioOption = dialog.audioOption]
                     ELSE [dialog EXCEPT !.submitted = dialog.type]
        /\ UNCHANGED besidesDialog

\* components.js:280-287  the dialog is closed without submitting
closeFileDialog ==
  /\ dialog.open
  /\ dialog' = [dialogClosed EXCEPT !.submitted = dialog.submitted,
                                    !.audioOption = dialog.audioOption]
  /\ UNCHANGED <<coreVars, besidesDialog>>

InitDialog ==
  /\ supabaseClient \in BOOLEAN
  /\ remoteFiles = <<>>
  /\ remoteFolders = <<>>
  /\ localFiles = <<>>
  /\ localFolders = <<>>
  /\ appState = appStateInit
  /\ lastCall = noCall
  /\ cf = cfIdle
  /\ storage = storageIdle
  /\ session = sessionIdle
  /\ tagList = tagListIdle
  /\ \E option \in BOOLEAN :
       dialog = [dialogClosed EXCEPT !.audioOption = option]
  /\ auth = authIdle
  /\ upload = uploadIdle
  /\ search = searchIdle
  /\ flight = flightIdle
  /\ lastWrite = lastWriteIdle
  /\ removal = removalIdle
  /\ account = accountIdle
  /\ startup = startupIdle

NextDialog ==
  \/ loadData
  \/ handleAddEntry
  \/ handleEditFile
  \/ dialogTagAdded
  \/ dialogTagRemoved
  \/ typeChosen
  \/ fileSelected
  \/ dialogSubmitted
  \/ closeFileDialog

SpecDialog == InitDialog /\ [][NextDialog]_vars

\* the tags of a file are lower case and no tag occurs twice
TagsFolded(tags) ==
  \A i \in DOMAIN tags :
    /\ tags[i] = toLowerCase(tags[i])
    /\ \A j \in DOMAIN tags : tags[j] = tags[i] => j = i

C16_TypeIsEnumerated ==
  /\ dialog.submitted # "none" => dialog.submitted \in FileTypes
  /\ \A i \in DOMAIN appState.files : appState.files[i].type \in FileTypes

\* C16, the part that holds: the type of a row of the remote table is one of
\* the four; the types submitted, listed in appState.files and kept in the
\* local store are those four and what selecting an audio file leaves in the
\* type select ('audio', or '' when the select has no such option).
C16_TypeIsEnumeratedOrAudio ==
  /\ \A i \in DOMAIN remoteFiles : remoteFiles[i].type \in FileTypes
  /\ dialog.submitted # "none" =>
       dialog.submitted \in FileTypes \cup {selectValue("audio")}
  /\ \A i \in DOMAIN appState.files :
       appState.files[i].type \in FileTypes \cup {selectValue("audio")}
  /\ \A i \in DOMAIN localFiles :
       localFiles[i].type \in FileTypes \cup {selectValue("audio")}

\* without a client, an entry made with an audio file selected is stored and
\* listed with a type that is none of the four
C16_Witness ==
  /\ ~supabaseClient
  /\ dialog.submitted \notin FileTypes \cup {"none"}
  /\ Len(localFiles) = 1
  /\ localFiles[1].type = dialog.submitted
  /\ Len(appState.files) = 1
  /\ appState.files[1].type = dialog.submitted

(***************************************************************************)
(* signUp: auth.js:64-144, request by request, for two callers at once      *)
(* (two pages), over the identities of the auth provider and the profiles   *)
(* table (api.js:600-607, 632-646) (SpecSignUp)                             *)
(***************************************************************************)
Callers == DOMAIN authIdle.calls

MsgNotInitialized == "Supabase not initialized"
MsgUsernameFormat ==
  "Username must be 3-20 lowercase characters (letters, numbers, underscores only)"
MsgUsernameTaken == "Username is already taken"
\* error.message of the auth provider, err.message of an exception
MsgAuthError == "User already registered"
MsgException == "Failed to fetch"

\* the user names asked for
abc == <<"a", "b", "c">>
Usernames ==
  {abc, <<"a", "_", "1">>, <<"A", "b", "c">>, <<"a", "b">>, <<>>,
   <<"a", "b", " ", "c">>, [i \in 1..21 |-> "a"], [i \in 1..20 |-> "z"]}

\* profiles.username of a row the trigger made (api.js:633-639): NULL
noUsername == <<"NULL">>

\* auth.js:71  /^[a-z0-9_]{3,20}$/.test(username)
regexTest(username) ==
  /\ Len(username) >= 3
  /\ Len(username) <= 20
  /\ \A i \in DOMAIN username :
       \/ \E j \in DOMAIN Lowers : Lowers[j] = username[i]
       \/ isDigit(username[i])
       \/ username[i] = "_"

\* auth.js:71  the user name may go on to the uniqueness check
usernameFormatAny(username) == username # <<>>
usernameFormatOk(username) == username # <<>> /\ regexTest(username)

\* what the remote side gives back to one request: a result without error,
\* a result with an error, or an exception
AuthAnswers == {"ok", "error", "throw"}

\* the call of caller c with some fields changed, a step recorded
stepped(c, step, kind) ==
  [auth.calls[c] EXCEPT !.steps = Append(@, <<step, kind>>),
                        !.requests = @ + 1]
returned(call, success, error) ==
  [call EXCEPT !.pc = "done", !.success = success, !.error = error]

\* api.js:604  username TEXT UNIQUE: the row of user may take the name
usernameFree(username, user) ==
  \A id \in DOMAIN auth.profiles :
    id # user => auth.profiles[id] # username

\* auth.js:64-73  signUp is called
signUpCalled(c) ==
  \E username \in Usernames :
    /\ auth.calls[c].pc = "idle"
    /\ auth' =
         [auth EXCEPT !.calls[c] =
            IF ~supabaseClient
            THEN returned([@ EXCEPT !.username = username], FALSE,
                          MsgNotInitialized)
            ELSE IF ~usernameFormatOk(username)
            THEN returned([@ EXCEPT !.username = username], FALSE,
                          MsgUsernameFormat)
            ELSE [@ EXCEPT !.username = username, !.pc = "check"]]
    /\ UNCHANGED besidesAuth

\* auth.js:76-85  the profiles query for the name is answered
signUpChecked(c) ==
  \E kind \in AuthAnswers :
    LET call == stepped(c, "check", kind)
        existingUser ==
          /\ kind = "ok"
          /\ \E id \in DOMAIN auth.profiles :
               auth.profiles[id] = toLowerCase(call.username)
    IN  /\ auth.calls[c].pc = "check"
        /\ auth' =
             [auth EXCEPT !.calls[c] =
                CASE kind = "throw" -> returned(call, FALSE, MsgException)
                  [] existingUser -> returned(call, FALSE, MsgUsernameTaken)
                  [] OTHER -> [call EXCEPT !.pc = "create"]]
        /\ UNCHANGED besidesAuth

\* auth.js:87-100  auth.signUp is answered; an identity that is created
\* carries the name in its metadata, and the trigger makes its profile row
\* (api.js:633-646)
signUpCreated(c) ==
  \E kind \in AuthAnswers, applied \in BOOLEAN :
    LET call == stepped(c, "create", kind)
        user == Len(auth.users) + 1
        made == IF kind = "throw" THEN applied ELSE kind = "ok"
    IN  /\ auth.calls[c].pc = "create"
        /\ auth' =
             [auth EXCEPT
                !.users = IF made THEN Append(@, toLowerCase(call.username))
                          ELSE @,
                !.profiles = IF made THEN Append(@, noUsername) ELSE @,
                !.calls[c] =
                  CASE kind = "throw" -> returned(call, FALSE, MsgException)
                    [] kind = "error" -> returned(call, FALSE, MsgAuthError)
                    [] OTHER -> [call EXCEPT !.pc = "delay", !.user = user]]
        /\ UNCHANGED besidesAuth

\* auth.js:104-105  the timer of 500 ms fires
signUpDelayed(c) ==
  /\ auth.calls[c].pc = "delay"
  /\ auth' = [auth EXCEPT !.calls[c].pc = "upsert",
                          !.calls[c].waited = @ + 500]
  /\ UNCHANGED besidesAuth

\* an error of the upsert ends signUp with a failure
upsertAnsweredStrict(call, kind) ==
  CASE kind = "throw" -> returned(call, FALSE, MsgException)
    [] kind = "error" -> returned(call, FALSE, MsgAuthError)
    [] OTHER -> returned(call, TRUE, "")

\* auth.js:116-129, 141-143  what signUp does with the answer of the upsert:
\* an error is logged and the update tried; an exception goes to the catch
upsertAnswered(call, kind) ==
  CASE kind = "throw" -> returned(call, FALSE, MsgException)
    [] kind = "error" -> [call EXCEPT !.pc = "update"]
    [] OTHER -> returned(call, TRUE, "")

\* auth.js:107-116  the upsert of the profile row is answered; the table
\* takes the name only if no other row has it
signUpUpserted(c) ==
  \E kind \in AuthAnswers, applied \in BOOLEAN :
    LET call == stepped(c, "upsert", kind)
        named == /\ usernameFree(toLowerCase(call.username), call.user)
                   /\ IF kind = "throw" THEN applied ELSE kind = "ok"
    IN  /\ auth.calls[c].pc = "upsert"
        /\ kind = "ok" => named
        /\ auth' =
             [auth EXCEPT
                !.profiles[call.user] =
                  IF named THEN toLowerCase(call.username) ELSE @,
                !.calls[c] = upsertAnswered(call, kind)]
        /\ UNCHANGED besidesAuth

\* auth.js:118-126  the update of the profile row is answered; without
\* error it changed the row, or no row (api.js:660-662)
signUpUpdated(c) ==
  \E kind \in AuthAnswers, applied \in BOOLEAN :
    LET call == stepped(c, "update", kind)
        named == /\ usernameFree(toLowerCase(call.username), call.user)
                   /\ kind # "error"
                   /\ applied
    IN  /\ auth.calls[c].pc = "update"
        /\ auth' =
             [auth EXCEPT
                !.profiles[call.user] =
                  IF named THEN toLowerCase(call.username) ELSE @,
                !.calls[c] =
                  IF kind = "throw"
                  THEN returned(call, FALSE, MsgException)
                  ELSE returned(call, TRUE, "")]
        /\ UNCHANGED besidesAuth

InitSignUp ==
  /\ supabaseClient \in BOOLEAN
  /\ remoteFiles = <<>>
  /\ remoteFolders = <<>>
  /\ localFiles = <<>>
  /\ localFolders = <<>>
  /\ appState = appStateInit
  /\ lastCall = noCall
  /\ cf = cfIdle
  /\ storage = storageIdle
  /\ session = sessionIdle
  /\ tagList = tagListIdle
  /\ dialog = dialogClosed
  /\ auth = [authIdle EXCEPT !.users = <<<<"a", "_", "1">>>>,
                             !.profiles = <<<<"a", "_", "1">>>>]
  /\ upload = uploadIdle
  /\ search = searchIdle
  /\ flight = flightIdle
  /\ lastWrite = lastWriteIdle
  /\ removal = removalIdle
  /\ account = accountIdle
  /\ startup = startupIdle

NextSignUp ==
  \E c \in Callers :
    \/ signUpCalled(c)
    \/ signUpChecked(c)
    \/ signUpCreated(c)
    \/ signUpDelayed(c)
    \/ signUpUpserted(c)
    \/ signUpUpdated(c)

SpecSignUp == InitSignUp /\ [][NextSignUp]_vars

\* the steps of signUp in their order
SignUpOrder == <<"check", "create", "delay", "upsert", "update">>
\* the requests a call has made, the delay put where it was waited for
stepsOf(call) ==
  LET names == [i \in DOMAIN call.steps |-> call.steps[i][1]]
  IN  IF call.waited = 0 THEN names
      ELSE SubSeq(names, 1, 2) \o <<"delay">> \o SubSeq(names, 3, Len(names))
did(call, step) == \E i \in DOMAIN call.steps : call.steps[i][1] = step

answeredWith(call, step, kind) ==
  \E i \in DOMAIN call.steps : call.steps[i] = <<step, kind>>

Associated(user) ==
  {auth.users[user]} \cup ({auth.profiles[user]} \ {noUsername})

\* C19 as stated: of two signUp calls that ask for the same user name, in
\* any interleaving, at most one returns success, and no two identities are
\* associated with the same user name.
C19_UsernamesUnique ==
  /\ \A c, d \in Callers :
       (/\ c # d
        /\ auth.calls[c].username = auth.calls[d].username
        /\ auth.calls[c].pc = "done" /\ auth.calls[c].success)
         => ~(auth.calls[d].pc = "done" /\ auth.calls[d].success)
  /\ \A u, v \in DOMAIN auth.users :
       u # v => Associated(u) \cap Associated(v) = {}

\* C19, the part that holds: no two rows of profiles have the same user
\* name, and the name of a profile row is the name its identity was created
\* with.
C19_ProfileUsernamesUnique ==
  \A u \in DOMAIN auth.profiles :
    auth.profiles[u] # noUsername =>
      /\ auth.profiles[u] = auth.users[u]
      /\ \A v \in DOMAIN auth.profiles :
           v # u => auth.profiles[v] # auth.profiles[u]

\* both callers asked for 'abc' and both returned success: two identities
\* carry the name, one profile row has it
C19_Witness ==
  /\ \A c \in Callers :
       /\ auth.calls[c].username = abc
       /\ auth.calls[c].pc = "done"
       /\ auth.calls[c].success
  /\ \E u, v \in DOMAIN auth.users :
       u # v /\ auth.users[u] = abc /\ auth.users[v] = abc
  /\ \E u \in DOMAIN auth.profiles : auth.profiles[u] = abc

-----------------------------------------------------------------------------
\* uploadFile (api.js:343-420): one request of XMLHttpRequest, the events the
\* user agent fires on it, the progress reported and the promise returned.

\* the progress events of one upload
MaxProgress == 3

\* the sizes of the files uploaded, in bytes; an empty file among them
FileSizes == {0, 1, 3, 8}

\* the HTTP statuses a response arrives with
Statuses == {200, 201, 299, 300, 304, 400, 413, 500}

MsgUploadFailed == <<"Upload failed">>
MsgNetworkError == <<"Network error during upload">>
MsgUploadCancelled == <<"Upload cancelled">>

\* a property of the result that is not there
noField == <<>>

\* the responseText of the storage service: text that is not JSON (an HTML
\* error page, the empty text), the JSON text null, and JSON objects with
\* and without the properties message and error
ResponseTexts ==
  {[json |-> FALSE, object |-> FALSE, message |-> "", error |-> ""],
   [json |-> TRUE, object |-> FALSE, message |-> "", error |-> ""],
   [json |-> TRUE, object |-> TRUE, message |-> "", error |-> ""],
   [json |-> TRUE, object |-> TRUE, message |-> "", error |-> "not_found"],
   [json |-> TRUE, object |-> TRUE,
    message |-> "Bucket not found", error |-> "not_found"]}

\* xhr.status >= 200 without the upper end
statusOkOpen(status) == status >= 200

\* xhr.status >= 200 && xhr.status < 300
statusOk(status) == status >= 200 /\ status < 300

\* Math.round((e.loaded / e.total) * 100), the half rounded up
percentOf(loaded, total) == (200 * loaded + total) \div (2 * total)

\* errorMsg of the load listener: JSON.parse throws on text that is not JSON
\* and reading a property of null throws, both caught with errorMsg left as
\* it was; an absent or empty property is falsy
errorMsgOf(responseText) ==
  IF ~responseText.json \/ ~responseText.object THEN MsgUploadFailed
  ELSE IF responseText.message # "" THEN <<responseText.message>>
  ELSE IF responseText.error # "" THEN <<responseText.error>>
  ELSE MsgUploadFailed

\* supabase.storage.from('archive-files').getPublicUrl(filePath)
publicUrl == <<"publicUrl">>

\* URL.createObjectURL(file)
objectURL == <<"blob:">>

uploadSuccess(url) == [success |-> TRUE, url |-> url, error |-> noField]
uploadFailure(error) == [success |-> FALSE, url |-> noField, error |-> error]

\* resolve(value) of the promise: the calls made, of which the first one
\* settles the promise
resolve(resolved, value) == Append(resolved, value)

\* uploadFile(file, onProgress) is called: without the client it reports 100
\* and returns the object URL; with it the request is opened and sent
uploadCalled ==
  /\ upload.pc \in {"idle", "ended"}
  /\ \E size \in FileSizes, onProgress \in BOOLEAN :
       upload' =
         IF ~supabaseClient
         THEN [uploadIdle EXCEPT
                 !.pc = "ended",
                 !.onProgress = onProgress,
                 !.total = size,
                 !.percents = IF onProgress THEN <<100>> ELSE <<>>,
                 !.resolved = resolve(<<>>, uploadSuccess(objectURL))]
         ELSE [uploadIdle EXCEPT
                 !.pc = "sending",
                 !.onProgress = onProgress,
                 !.total = size]
  /\ UNCHANGED besidesUpload

\* a progress event of xhr.upload: the user agent makes the length computable
\* exactly when the length of the body is not 0, and loaded never goes back
uploadProgress ==
  /\ upload.pc = "sending"
  /\ upload.events < MaxProgress
  /\ \E loaded \in upload.lastLoaded .. upload.total :
       LET lengthComputable == upload.total # 0
       IN  upload' =
             IF lengthComputable /\ upload.onProgress
             THEN [upload EXCEPT
                     !.events = @ + 1,
                     !.lastLoaded = loaded,
                     !.percents = Append(@, percentOf(loaded, upload.total))]
             ELSE [upload EXCEPT !.events = @ + 1]
  /\ UNCHANGED besidesUpload

\* the load event: the response has arrived
uploadLoad ==
  /\ upload.pc = "sending"
  /\ \E status \in Statuses, responseText \in ResponseTexts :
       upload' =
         [upload EXCEPT
            !.pc = "ended",
            !.event = "load",
            !.status = status,
            !.responseText = responseText,
            !.resolved =
              IF statusOk(status)
              THEN resolve(@, uploadSuccess(publicUrl))
              ELSE resolve(@, uploadFailure(errorMsgOf(responseText)))]
  /\ UNCHANGED besidesUpload

\* the error event: the transport failed
uploadError ==
  /\ upload.pc = "sending"
  /\ upload' =
       [upload EXCEPT
          !.pc = "ended",
          !.event = "error",
          !.resolved = resolve(@, uploadFailure(MsgNetworkError))]
  /\ UNCHANGED besidesUpload

\* the abort event: the request was cancelled
uploadAbort ==
  /\ upload.pc = "sending"
  /\ upload' =
       [upload EXCEPT
          !.pc = "ended",
          !.event = "abort",
          !.resolved = resolve(@, uploadFailure(MsgUploadCancelled))]
  /\ UNCHANGED besidesUpload

InitUpload ==
  /\ supabaseClient \in BOOLEAN
  /\ remoteFiles = <<>>
  /\ remoteFolders = <<>>
  /\ localFiles = <<>>
  /\ localFolders = <<>>
  /\ appState = appStateInit
  /\ lastCall = noCall
  /\ cf = cfIdle
  /\ componentsIdle

NextUpload ==
  \/ uploadCalled
  \/ uploadProgress
  \/ uploadLoad
  \/ uploadError
  \/ uploadAbort

SpecUpload == InitUpload /\ [][NextUpload]_vars

\* C20: with the remote client present a call of uploadFile resolves exactly
\* once, after the transport event and with the outcome the event determines:
\* load with a status 2xx gives success with the public URL; load with
\* another status gives failure with the server's message or 'Upload failed';
\* error gives failure 'Network error during upload'; abort gives failure
\* 'Upload cancelled'.  Every percent reported is between 0 and 100.
C20_UploadResolvesOnceByEvent ==
  /\ \A i \in DOMAIN upload.percents :
       upload.percents[i] >= 0 /\ upload.percents[i] <= 100
  /\ (supabaseClient /\ upload.pc = "sending") => upload.resolved = <<>>
  /\ (supabaseClient /\ upload.pc = "ended") =>
       /\ Len(upload.resolved) = 1
       /\ LET result == upload.resolved[1]
              text == upload.responseText
          IN  /\ (upload.event = "load" /\ upload.status \in 200 .. 299)
                   => result = [success |-> TRUE, url |-> publicUrl,
                                error |-> noField]
              /\ (upload.event = "load" /\ upload.status \notin 200 .. 299)
                   => /\ result.success = FALSE
                      /\ result.url = noField
                      /\ result.error \in
                           {<<text.message>>, <<text.error>>, MsgUploadFailed}
                      /\ result.error # <<"">>
                      /\ (text.object /\ text.message # "")
                           => result.error = <<text.message>>
                      /\ (~text.json) => result.error = MsgUploadFailed
              /\ upload.event = "error"
                   => result = [success |-> FALSE, url |-> noField,
                                error |-> MsgNetworkError]
              /\ upload.event = "abort"
                   => result = [success |-> FALSE, url |-> noField,
                                error |-> MsgUploadCancelled]
              /\ upload.event \in {"load", "error", "abort"}

\* an upload of 8 bytes reported 38 percent and then ended with status 413
\* and the server's message
C20_Witness ==
  /\ supabaseClient
  /\ upload.pc = "ended"
  /\ upload.event = "load"
  /\ upload.status = 413
  /\ upload.total = 8
  /\ \E i \in DOMAIN upload.percents : upload.percents[i] = 38
  /\ upload.resolved = <<[success |-> FALSE, url |-> noField,
                          error |-> <<"Bucket not found">>]>>

-----------------------------------------------------------------------------
\* The search inputs (app.js:466-491): both listeners share searchTimeout;
\* an input event clears the pending timer and sets one of 300 ms, whose
\* callback reads the value of its input and calls setSearchQuery.  Timers
\* fire when they are due; an input event at the same instant may come first.

\* the input events of one run
MaxInputs == 3
\* the time a run lasts, in ms
MaxSearchClock == 800
\* app.js:477, 490  the delay of the timer
debounceMs == 300
\* the time between two instants looked at, in ms
ClockSteps == {100, 200}
\* search-input and mobile-search-input
SearchInputs == {"desktop", "mobile"}

\* clearTimeout that cancels nothing
clearTimeoutNone(timers, id) == timers

\* clearTimeout(id): the timer of that id, if pending, is cancelled
clearTimeout(timers, id) == {t \in timers : t.id # id}

\* setTimeout(callback, delay) of the listener of input target; the id is
\* the number of the input event
setTimeout(timers, id, target, delay, now) ==
  timers \cup {[id |-> id, target |-> target, due |-> now + delay]}

\* e.target.value, read when the callback runs
targetValue(s, target) == IF target = "desktop" THEN s.desktop ELSE s.mobile

\* app.js:468-470, 482-484  the user changes one of the inputs
searchInput ==
  \E target \in SearchInputs, value \in Queries :
    LET id == Len(search.events) + 1
    IN  /\ Len(search.events) < MaxInputs
        /\ search.now + debounceMs <= MaxSearchClock
        /\ search' =
             [search EXCEPT
                !.desktop = IF target = "desktop" THEN value ELSE @,
                !.mobile = IF target = "mobile" THEN value ELSE @,
                !.timers =
                  setTimeout(clearTimeout(@, search.searchTimeout), id,
                             target, debounceMs, search.now),
                !.searchTimeout = id,
                !.events = Append(@, [time |-> search.now, target |-> target,
                                      value |-> value])]
        /\ UNCHANGED <<coreVars, besidesSearch>>

\* app.js:470-477, 484-490  a timer is due: setSearchQuery(e.target.value),
\* and the other input takes the value
searchTimeoutFired ==
  \E t \in search.timers :
    LET value == targetValue(search, t.target)
    IN  /\ t.due <= search.now
        /\ appState' = applyFilters([appState EXCEPT !.searchQuery = value])
        /\ search' =
             [search EXCEPT
                !.desktop = value,
                !.mobile = value,
                !.timers = @ \ {t},
                !.applied = Append(@, [k |-> t.id, time |-> search.now,
                                       value |-> value])]
        /\ UNCHANGED <<supabaseClient, remoteFiles, remoteFolders,
                       localFiles, localFolders, lastCall, cf>>
        /\ UNCHANGED besidesSearch

\* time passes, never beyond the instant a timer is due
searchTick ==
  \E d \in ClockSteps :
    /\ search.now + d <= MaxSearchClock
    /\ \A t \in search.timers : search.now + d <= t.due
    /\ search' = [search EXCEPT !.now = @ + d]
    /\ UNCHANGED <<coreVars, besidesSearch>>

InitSearch ==
  /\ supabaseClient = FALSE
  /\ remoteFiles = <<>>
  /\ remoteFolders = <<>>
  /\ localFiles = <<>>
  /\ localFolders = <<>>
  /\ appState = appStateInit
  /\ lastCall = noCall
  /\ cf = cfIdle
  /\ componentsIdle

NextSearch ==
  \/ searchInput
  \/ searchTimeoutFired
  \/ searchTick

SpecSearch == InitSearch /\ [][NextSearch]_vars

\* the event loop runs the callback of a due timer, and time passes
SpecSearchFair ==
  SpecSearch /\ WF_vars(searchTimeoutFired) /\ WF_vars(searchTick)

\* input event k was applied: setSearchQuery ran from its timer
appliedEvent(k) ==
  \E i \in DOMAIN search.applied : search.applied[i].k = k

\* input event k is followed by another less than 300 ms later
followedSoon(k) ==
  /\ k < Len(search.events)
  /\ search.events[k + 1].time < search.events[k].time + debounceMs

\* setSearchQuery runs only from the timer of an input event that no other
\* followed within 300 ms, 300 ms after that event and with its value, once;
\* it has run for every such event that is more than 300 ms past
SearchDebounced ==
  /\ \A i \in DOMAIN search.applied :
       LET a == search.applied[i]
       IN  /\ a.k \in DOMAIN search.events
           /\ a.time = search.events[a.k].time + debounceMs
           /\ a.value = search.events[a.k].value
           /\ ~followedSoon(a.k)
           /\ \A j \in DOMAIN search.applied :
                search.applied[j].k = a.k => j = i
  /\ \A k \in DOMAIN search.events :
       (/\ search.now > search.events[k].time + debounceMs
        /\ k < Len(search.events) =>
             search.events[k + 1].time > search.events[k].time + debounceMs)
         => appliedEvent(k)
  /\ search.applied # <<>> =>
       /\ appState.searchQuery = search.applied[Len(search.applied)].value
       /\ appState.filteredFiles = applyFilters(appState).filteredFiles

-----------------------------------------------------------------------------
\* Submissions of the file form that overlap (app.js:314-409).  The handler
\* reads the form, awaits updateFile or createFile and changes appState when
\* the result is there; nothing keeps the form from being submitted again in
\* between.  The requests of two submissions reach the store in either order
\* and their results come back in either order.

\* the submissions of one run
MaxSubmissions == 2

\* what the store answers to the request of a submission
FlightAnswers == {"ok", "error"}

\* the result left out of appState
handledFilesKeep(files, sub) == files

\* app.js:374-396  appState.files after the result of a submission
handledFiles(files, sub) ==
  LET index == findIndex(files, sub.fileId)
  IN  IF ~sub.ok THEN files
      ELSE IF ~falsy(sub.fileId)
      THEN IF index # 0
           THEN [files EXCEPT ![index] = mergeFile(@, sub.fileData)]
           ELSE files
      ELSE <<localFile(sub.id, sub.fileData)>> \o files

\* app.js:314-372, 388  the form is submitted, for a new entry or for a
\* listed file, and the handler awaits the store
formSubmitted ==
  \E fileId \in {null} \cup seqIds(appState.files), p \in Presets :
    /\ Len(flight.subs) < MaxSubmissions
    /\ flight' =
         [flight EXCEPT
            !.subs = Append(@, [fileId |-> fileId,
                                fileData |-> withFolder(p, null),
                                pc |-> "sent", ok |-> FALSE, id |-> 0])]
    /\ UNCHANGED <<coreVars, besidesFlight>>

\* api.js:96-109, 160-175  the store takes the request of a submission: the
\* row is updated or inserted, or the request is refused
storeApplied ==
  \E i \in DOMAIN flight.subs, kind \in FlightAnswers :
    LET sub == flight.subs[i]
        id == IF falsy(sub.fileId) THEN freshId(RemoteFileIds, {})
              ELSE sub.fileId
    IN  /\ sub.pc = "sent"
        /\ remoteFiles' =
             IF kind # "ok" THEN remoteFiles
             ELSE IF falsy(sub.fileId)
             THEN <<insertRow(id, sub.fileData)>> \o remoteFiles
             ELSE remoteUpdate(remoteFiles, id, sub.fileData)
        /\ flight' =
             [flight EXCEPT
                !.subs[i] = [sub EXCEPT !.pc = "applied",
                                        !.ok = (kind = "ok"),
                                        !.id = id],
                !.applied = Append(@, i)]
        /\ UNCHANGED <<supabaseClient, remoteFolders, localFiles,
                       localFolders, appState, lastCall, cf>>
        /\ UNCHANGED besidesFlight

\* app.js:373-408  the result of a submission is there and the handler goes
\* on
resultHandled ==
  \E i \in DOMAIN flight.subs :
    LET sub == flight.subs[i]
        files == handledFiles(appState.files, sub)
    IN  /\ sub.pc = "applied"
        /\ appState' =
             IF sub.ok
             THEN applyFilters([appState EXCEPT
                    !.files = files,
                    !.folders =
                      recalculateFolderCounts(files, appState.folders)])
             ELSE appState
        /\ flight' = [flight EXCEPT !.subs[i].pc = "done",
                                    !.handled = Append(@, i)]
        /\ UNCHANGED <<supabaseClient, remoteFiles, remoteFolders,
                       localFiles, localFolders, lastCall, cf>>
        /\ UNCHANGED besidesFlight

\* the page after loadData, with the client and a table of one row
InitFlight ==
  /\ supabaseClient = TRUE
  /\ remoteFolders = <<>>
  /\ remoteFiles =
       <<[id |-> 1, title |-> ba, description |-> <<>>, type |-> "pdf",
          folder_id |-> null, tags |-> <<tagAB>>]>>
  /\ localFiles = <<>>
  /\ localFolders = <<>>
  /\ appState =
       applyFilters([appStateInit EXCEPT !.files = mapRows(remoteFiles)])
  /\ lastCall = noCall
  /\ cf = cfIdle
  /\ componentsIdle

NextFlight ==
  \/ formSubmitted
  \/ storeApplied
  \/ resultHandled

SpecFlight == InitFlight /\ [][NextFlight]_vars

\* the last of the submissions in `order` that succeeded as an update of file
\* id; 0 if there is none
lastUpdateOf(order, id) ==
  LET hits == {n \in DOMAIN order :
                 /\ flight.subs[order[n]].fileId = id
                 /\ flight.subs[order[n]].ok}
  IN  IF hits = {} THEN 0
      ELSE order[CHOOSE n \in hits : \A m \in hits : m <= n]

\* the submissions in `order` that succeeded as a create
createsOf(order) ==
  {n \in DOMAIN order :
     falsy(flight.subs[order[n]].fileId) /\ flight.subs[order[n]].ok}

\* the data a file or a row holds
dataOf(f) ==
  [title |-> f.title, description |-> f.description, type |-> f.type,
   tags |-> f.tags]
fileOf(files, id) == files[findIndex(files, id)]

\* C22: the client neither orders nor merges overlapping writes.  Every
\* submission has its own request: the row of a file holds the data of the
\* update the store applied last, the file of appState.files the data of the
\* update whose result was handled last, whichever order the two came in;
\* and every create that succeeded has its own row and its own entry.
C22_OverlappingWritesAreNotOrdered ==
  /\ Len(flight.applied) =
       Cardinality({i \in DOMAIN flight.subs : flight.subs[i].pc # "sent"})
  /\ \A id \in seqIds(remoteFiles) :
       LET i == lastUpdateOf(flight.applied, id)
       IN  i # 0 =>
             dataOf(fileOf(remoteFiles, id)) = dataOf(flight.subs[i].fileData)
  /\ \A id \in seqIds(appState.files) :
       LET i == lastUpdateOf(flight.handled, id)
       IN  i # 0 =>
             dataOf(fileOf(appState.files, id))
               = dataOf(flight.subs[i].fileData)
  /\ Len(remoteFiles) = 1 + Cardinality(createsOf(flight.applied))
  /\ Len(appState.files) = 1 + Cardinality(createsOf(flight.handled))

\* two submissions edited file 1 while the first was under way, both
\* succeeded, the store applied them in one order and the results were
\* handled in the other: the file of appState.files is not the row
C22_Witness ==
  /\ Len(flight.subs) = 2
  /\ \A i \in DOMAIN flight.subs :
       /\ flight.subs[i].fileId = 1
       /\ flight.subs[i].pc = "done"
       /\ flight.subs[i].ok
  /\ flight.applied = <<1, 2>>
  /\ flight.handled = <<2, 1>>
  /\ dataOf(fileOf(appState.files, 1)) # dataOf(fileOf(remoteFiles, 1))

-----------------------------------------------------------------------------
\* The two arrays of the local fallback store (api.js:472-555), under SpecApi

LocalFileOps == {"createFile", "updateFile", "deleteFile"}
LocalFolderOps == {"createFolder", "deleteFolder"}

\* C23: the local fallback store is two arrays kept under two keys: a file
\* operation on it (create, update, delete) leaves the stored folder array as
\* it was, and a folder operation (create, delete) leaves the stored file
\* array as it was.
C23_LocalArraysAreIndependent ==
  [][/\ (lastCall'.local /\ lastCall'.op \in LocalFileOps)
          => localFolders' = localFolders
     /\ (lastCall'.local /\ lastCall'.op \in LocalFolderOps)
          => localFiles' = localFiles]_vars

\* a local folder was deleted while a stored file was in it: the stored file
\* array is as it was, the file still naming the folder
C23_Witness ==
  /\ lastCall.op = "deleteFolder"
  /\ lastCall.local
  /\ lastCall.id \in LocalFolderIds
  /\ localFolders = <<>>
  /\ \E i \in DOMAIN localFiles : localFiles[i].folderId = lastCall.id

-----------------------------------------------------------------------------
\* The handlers of writes one at a time, with a record of how the last one
\* ended (app.js:289-435)

\* what lastWrite keeps of the state a handler starts in
before(handler, outcome, calledApi) ==
  [handler |-> handler, outcome |-> outcome, called |-> calledApi,
   files |-> appState.files, folders |-> appState.folders,
   filteredFiles |-> appState.filteredFiles,
   stores |-> <<remoteFiles, remoteFolders, localFiles, localFolders>>]

\* "success" or "failed", as the result object says
outcomeOf(result) == IF result.success THEN "success" ELSE "failed"

\* app.js:289-308  the delete button of a listed file
deleteAttempted ==
  \E fileId \in seqIds(appState.files), aDel \in AppUpdateAnswers :
    /\ deleteFileHandled(fileId, aDel)
    /\ lastWrite' =
         before("handleDeleteFile",
                outcomeOf(deleteFile(fileId, okAnswer, 0, aDel).call.result),
                TRUE)
    /\ UNCHANGED besidesLastWrite

\* app.js:314-409  the file form is submitted, with or without a file chosen
\* for upload; the title is looked at first (324-327), then the file is
\* uploaded (337-352), which fails only with the client (api.js:345-349)
fileFormAttempted ==
  \E fileId \in {null} \cup seqIds(appState.files),
     selectedFile \in BOOLEAN,
     uploaded \in {TRUE} \cup {supabaseClient = FALSE} :
   \E p \in {q \in Presets :
               q.type = (IF falsy(fileId) THEN "pdf" ELSE "image")},
      a \in IF falsy(fileId) THEN {okAnswer} ELSE AppUpdateAnswers,
      answers \in IF falsy(fileId) THEN AppInsertAnswerSeqs ELSE {<<>>} :
   \E rawTitle \in FormTitles(p) :
     LET call == fileFormCall(fileId, rawTitle, p.type, null, p.description,
                              p.tags, a, answers)
     IN  /\ IF trim(rawTitle) # <<>> /\ selectedFile /\ ~uploaded
            THEN /\ UNCHANGED coreVars   \* app.js:348-351
                 /\ lastWrite' =
                      before("handleFileFormSubmit", "uploadFailed", FALSE)
            ELSE /\ fileFormSubmitted(fileId, rawTitle, p.type, null,
                                      p.description, p.tags, a, answers)
                 /\ lastWrite' =
                      IF trim(rawTitle) = <<>>
                      THEN before("handleFileFormSubmit", "emptyTitle", FALSE)
                      ELSE before("handleFileFormSubmit",
                                  outcomeOf(call.e.call.result), TRUE)
         /\ UNCHANGED besidesLastWrite

\* app.js:415-435  the folder form is submitted
folderFormAttempted ==
  \E rawName \in FolderFormNames, a \in AppAnswers :
    /\ folderFormSubmitted(rawName, a)
    /\ lastWrite' =
         IF trim(rawName) = <<>>
         THEN before("handleFolderFormSubmit", "emptyName", FALSE)
         ELSE before("handleFolderFormSubmit",
                     outcomeOf(createFolder(trim(rawName), a).call.result),
                     TRUE)
    /\ UNCHANGED besidesLastWrite

\* the page after loadData, with or without the client
InitWrites ==
  /\ supabaseClient \in BOOLEAN
  /\ remoteFolders = <<[id |-> 2 * PoolSize + 1, name |-> <<"A", "r", "t">>]>>
  /\ remoteFiles =
       <<[id |-> 1, title |-> ba, description |-> <<>>, type |-> "pdf",
          folder_id |-> 2 * PoolSize + 1, tags |-> <<tagAB>>]>>
  /\ localFiles = <<>>
  /\ localFolders = <<>>
  /\ appState =
       LET files == getFiles(okAnswer).call.files
           folders == getFolders(okAnswer, okAnswer).call.folders
       IN  applyFilters([appStateInit EXCEPT
                           !.files = files,
                           !.folders =
                             recalculateFolderCounts(files, folders)])
  /\ lastCall = noCall
  /\ cf = cfIdle
  /\ componentsIdle

NextWrites ==
  \/ deleteAttempted
  \/ fileFormAttempted
  \/ folderFormAttempted

SpecWrites == InitWrites /\ [][NextWrites]_vars

\* C24: a write that fails leaves the state in memory as it was: when
\* deleteFile, updateFile, createFile or createFolder returns success=false,
\* when the file form is submitted with an empty title, or when the upload of
\* the file chosen fails, appState.files, appState.folders and
\* appState.filteredFiles are what they were before the handler ran; with an
\* empty title or a failed upload no create or update is asked of the
\* data-access layer and the stores are as they were.
C24_FailedWriteLeavesAppState ==
  /\ lastWrite.outcome \in {"failed", "emptyTitle", "uploadFailed"} =>
       /\ appState.files = lastWrite.files
       /\ appState.folders = lastWrite.folders
       /\ appState.filteredFiles = lastWrite.filteredFiles
  /\ lastWrite.outcome \in {"emptyTitle", "uploadFailed"} =>
       /\ ~lastWrite.called
       /\ lastWrite.stores
            = <<remoteFiles, remoteFolders, localFiles, localFolders>>

\* the delete of a listed file was refused by the store: the file is listed
\* as before, and the row is there
C24_Witness ==
  /\ lastWrite.handler = "handleDeleteFile"
  /\ lastWrite.outcome = "failed"
  /\ lastWrite.called
  /\ Len(appState.files) = 2
  /\ Len(appState.filteredFiles) = 2
  /\ appState.files = lastWrite.files
  /\ seqIds(appState.files) = seqIds(remoteFiles)

-----------------------------------------------------------------------------
\* The remote deleteFile step by step (api.js:191-227) with deleteStorageFile
\* (api.js:427-453): the row is read, its assets are removed from the bucket,
\* the row is deleted.

\* the references a row may hold: an asset of the bucket archive-files, or a
\* URL that is not of the storage service
assetA == [storage |-> TRUE, path |-> "uploads/a"]
assetB == [storage |-> TRUE, path |-> "uploads/b"]
external == [storage |-> FALSE, path |-> "https://example.org/a"]
Urls == {noUrl, assetA, assetB, external}

\* what the service answers to a request
RemovalAnswers == {"ok", "error", "throw"}

\* the thumbnail is removed whenever the row has one
thumbnailRemovedAlways(file) == file.thumbnail_url # noUrl

\* api.js:209  file?.thumbnail_url && file.thumbnail_url !== file.file_url
thumbnailRemoved(file) ==
  file.thumbnail_url # noUrl /\ file.thumbnail_url # file.file_url

\* api.js:429-437  deleteStorageFile asks the service only for a URL of the
\* storage service that names an object of the bucket
asksStorage(url) == url.storage

\* the step after the select, and after the removal of the asset at file_url
afterSelect(file) ==
  IF file.file_url # noUrl THEN "removeFile"
  ELSE IF thumbnailRemoved(file) THEN "removeThumbnail"
  ELSE "delete"
afterFile(file) ==
  IF thumbnailRemoved(file) THEN "removeThumbnail" ELSE "delete"

\* api.js:191-203  deleteFile(id) is called with the client and asks for the
\* row
deleteFileCalled ==
  /\ removal.pc = "idle"
  /\ removal' = [removal EXCEPT !.pc = "select"]
  /\ UNCHANGED <<coreVars, besidesRemoval>>

\* api.js:199-203  the select is answered; only data is read, so an error
\* leaves file undefined; an exception goes to the catch (224-226)
deleteFileSelected ==
  \E kind \in RemovalAnswers :
    LET file == IF kind = "ok" /\ removal.rowThere THEN removal.row
                ELSE removalIdle.row
    IN  /\ removal.pc = "select"
        /\ removal' =
             [removal EXCEPT
                !.steps = Append(@, <<"select", kind>>),
                !.file = file,
                !.pc = IF kind = "throw" THEN "done" ELSE afterSelect(file),
                !.success = FALSE]
        /\ UNCHANGED <<coreVars, besidesRemoval>>

\* api.js:206-211, 427-453  deleteStorageFile(url) returns: without a request
\* for a URL that is not of the storage service, else with the answer of the
\* remove, which may have been carried out although it threw; deleteFile does
\* not read what is returned
assetRemoved(step, url, next) ==
  \E kind \in RemovalAnswers, carried \in BOOLEAN :
    LET gone == IF kind = "throw" THEN carried ELSE kind = "ok"
    IN  /\ removal.pc = step
        /\ removal' =
             IF ~asksStorage(url)
             THEN [removal EXCEPT !.pc = next]
             ELSE [removal EXCEPT
                     !.steps = Append(@, <<step, kind>>),
                     !.bucket = IF gone THEN @ \ {url} ELSE @,
                     !.pc = next]
        /\ UNCHANGED <<coreVars, besidesRemoval>>

\* api.js:206-208
fileAssetRemoved ==
  assetRemoved("removeFile", removal.file.file_url, afterFile(removal.file))

\* api.js:209-211
thumbnailAssetRemoved ==
  assetRemoved("removeThumbnail", removal.file.thumbnail_url, "delete")

\* api.js:214-226  the delete of the row is answered
deleteFileRowDeleted ==
  \E kind \in RemovalAnswers, carried \in BOOLEAN :
    LET gone == IF kind = "throw" THEN carried ELSE kind = "ok"
    IN  /\ removal.pc = "delete"
        /\ removal' =
             [removal EXCEPT
                !.steps = Append(@, <<"delete", kind>>),
                !.rowThere = IF gone THEN FALSE ELSE @,
                !.pc = "done",
                !.success = (kind = "ok")]
        /\ UNCHANGED <<coreVars, besidesRemoval>>

\* a row with its references, and the bucket with the assets it references
InitRemoval ==
  /\ supabaseClient = TRUE
  /\ remoteFiles = <<>>
  /\ remoteFolders = <<>>
  /\ localFiles = <<>>
  /\ localFolders = <<>>
  /\ appState = appStateInit
  /\ lastCall = noCall
  /\ cf = cfIdle
  /\ storage = storageIdle
  /\ session = sessionIdle
  /\ tagList = tagListIdle
  /\ dialog = dialogClosed
  /\ auth = authIdle
  /\ upload = uploadIdle
  /\ search = searchIdle
  /\ flight = flightIdle
  /\ lastWrite = lastWriteIdle
  /\ account = accountIdle
  /\ startup = startupIdle
  /\ \E f \in Urls, t \in Urls, there \in BOOLEAN :
       removal =
         [removalIdle EXCEPT
            !.row = [file_url |-> f, thumbnail_url |-> t],
            !.rowThere = there,
            !.bucket = {u \in {f, t} : u.storage}]

NextRemoval ==
  \/ deleteFileCalled
  \/ deleteFileSelected
  \/ fileAssetRemoved
  \/ thumbnailAssetRemoved
  \/ deleteFileRowDeleted

SpecRemoval == InitRemoval /\ [][NextRemoval]_vars

\* the places of the requests of a kind among those made
placesOf(step) ==
  {i \in DOMAIN removal.steps : removal.steps[i][1] = step}

\* C25: the remote deleteFile removes the assets before the row: the asset at
\* file_url first, the asset at thumbnail_url only when it differs from
\* file_url, and the delete of the row after them, also when a removal
\* reported an error; deleteFile returns success exactly when the delete of
\* the row reported none, whatever became of the assets.
C25_AssetsRemovedBeforeRow ==
  /\ \A i \in placesOf("removeFile"), j \in placesOf("removeThumbnail") : i < j
  /\ \A i \in placesOf("removeFile") \cup placesOf("removeThumbnail"),
        j \in placesOf("delete") : i < j
  /\ placesOf("removeThumbnail") # {} =>
       removal.file.thumbnail_url # removal.file.file_url
  /\ Cardinality(placesOf("removeFile")) <= 1
  /\ Cardinality(placesOf("removeThumbnail")) <= 1
  /\ removal.pc = "done" =>
       /\ (<<"select", "throw">> # removal.steps[1])
            => placesOf("delete") = {Len(removal.steps)}
       /\ removal.success =
            (removal.steps[Len(removal.steps)] = <<"delete", "ok">>)
       /\ (placesOf("delete") # {} /\ removal.file.file_url.storage)
            => placesOf("removeFile") = {2}
       /\ (/\ placesOf("delete") # {}
           /\ removal.file.thumbnail_url.storage
           /\ removal.file.thumbnail_url # removal.file.file_url)
            => placesOf("removeThumbnail") # {}

\* both assets of a row were removed, then the delete of the row was
\* refused: deleteFile returned success=false and the row references assets
\* that are gone
C25_Witness ==
  /\ removal.pc = "done"
  /\ ~removal.success
  /\ removal.rowThere
  /\ removal.row = [file_url |-> assetA, thumbnail_url |-> assetB]
  /\ removal.bucket = {}
  /\ removal.steps = <<<<"select", "ok">>, <<"removeFile", "ok">>,
                       <<"removeThumbnail", "ok">>, <<"delete", "error">>>>


\* ---------------------------------------------------------------------------
\* The auth module (auth.js:6-236): currentUser, isAdmin and currentUsername
\* under initAuth, signIn, signOut, the handler of auth-state changes and the
\* profile lookup of checkAdminStatus. Every await is a request under way;
\* the requests under way are answered in any order.

MaxAuthOps == 3
MaxInitAuth == 1
\* the accounts of the provider; 0 is no user (null)
Users == {1, 2}
\* the profiles table: account 1 is an admin named 'ab', account 2 is no
\* admin and its profile has no username
profileOf(u) ==
  IF u = 1 THEN [is_admin |-> TRUE, username |-> <<"a", "b">>]
  ELSE [is_admin |-> FALSE, username |-> <<>>]
AccountAnswers == {"ok", "error", "throw"}
AuthEvents == {"SIGNED_IN", "INITIAL_SESSION", "SIGNED_OUT", "TOKEN_REFRESHED"}

\* a request under way: its kind, the account it is about, who awaits it,
\* and the call of initAuth that awaits it, if one does
request(kind, user, resume, init) ==
  [kind |-> kind, user |-> user, resume |-> resume, init |-> init]
dropAt(s, i) == SubSeq(s, 1, i - 1) \o SubSeq(s, i + 1, Len(s))
awaiting(s, kind) == {i \in DOMAIN s.pending : s.pending[i].kind = kind}

\* auth.js:204-219  checkAdminStatus up to its await: without a user the
\* flag and the username are cleared; the lookup asks for the profile of the
\* user that is current at the call
checkAdminStatus(s, resume, init) ==
  IF s.currentUser = 0
  THEN [s EXCEPT !.isAdmin = FALSE, !.currentUsername = nullName]
  ELSE IF ~supabaseClient THEN s
  ELSE [s EXCEPT !.pending =
          Append(@, request("profile", s.currentUser, resume, init))]

\* auth.js:221-234  what the answer of the lookup assigns, whoever is the
\* current user by then
lookupAssigns(s, req, ans) ==
  IF ans = "ok"
  THEN [s EXCEPT !.isAdmin = profileOf(req.user).is_admin,
                 !.currentUsername =
                   orElse(profileOf(req.user).username, nullName)]
  ELSE [s EXCEPT !.isAdmin = FALSE, !.currentUsername = nullName]

\* auth.js:33-51  the handler of auth-state changes up to its await
RECURSIVE onAuthStateChange(_, _, _, _)
onAuthStateChange(s, event, user, n) ==
  IF n = 0 THEN s
  ELSE LET handled ==
             IF event \in {"SIGNED_IN", "INITIAL_SESSION"} /\ user # 0
             THEN checkAdminStatus([s EXCEPT !.currentUser = user],
                                   "event", 0)
             ELSE IF event = "SIGNED_OUT"
             THEN [s EXCEPT !.currentUser = 0, !.isAdmin = FALSE,
                            !.currentUsername = nullName]
             ELSE s
       IN  onAuthStateChange(handled, event, user, n - 1)

\* auth.js:29-51  initAuth registers its handler and returns
registered(s, init) ==
  [s EXCEPT !.listeners = @ + 1, !.inits[init] = "returned"]

\* auth.js:14-19  initAuth is called: without a client it returns, with one
\* it asks for the session
initAuth(s) ==
  IF ~supabaseClient THEN [s EXCEPT !.inits = Append(@, "returned")]
  ELSE [s EXCEPT !.inits = Append(@, "getSession"),
                 !.pending =
                   Append(@, request("getSession", 0, "initAuth",
                                     Len(s.inits) + 1))]

\* auth.js:19-30, 52-54  the session is answered: an error or an exception
\* ends initAuth with no handler registered; a session with a user makes it
\* the current user and looks its profile up; none registers the handler
getSessionAnswered(s, i, ans) ==
  LET req == s.pending[i]
      rest == [s EXCEPT !.pending = dropAt(@, i), !.last = "getSession"]
  IN  IF ans # "ok" THEN [rest EXCEPT !.inits[req.init] = "returned"]
      ELSE IF s.sessionUser # 0
      THEN checkAdminStatus(
             [rest EXCEPT !.currentUser = s.sessionUser,
                          !.inits[req.init] = "lookup"],
             "initAuth", req.init)
      ELSE registered(rest, req.init)

\* auth.js:215-234  the lookup is answered, and whoever awaited it goes on:
\* initAuth registers its handler (auth.js:28-51); signIn and the handler
\* of auth-state changes assign nothing more
profileAnswered(s, i, ans) ==
  LET req == s.pending[i]
      assigned ==
        lookupAssigns([s EXCEPT !.pending = dropAt(@, i),
                                !.last = "profile"], req, ans)
  IN  IF req.resume = "initAuth" THEN registered(assigned, req.init)
      ELSE assigned

\* auth.js:152-174  signIn: the request, and after its answer the
\* assignment of the user and the lookup; the provider tells the handlers
\* registered of the new session before signIn goes on
signInAnswered(s, i, ans) ==
  LET req == s.pending[i]
      rest == [s EXCEPT !.pending = dropAt(@, i), !.last = "signIn"]
  IN  IF ans # "ok" THEN rest
      ELSE LET told ==
                 onAuthStateChange([rest EXCEPT !.sessionUser = req.user],
                                   "SIGNED_IN", req.user, rest.listeners)
           IN  [told EXCEPT !.pending =
                  Append(@, request("resume", req.user, "signIn", 0))]
signInResumed(s, i) ==
  LET req == s.pending[i]
  IN  checkAdminStatus([s EXCEPT !.pending = dropAt(@, i),
                                 !.currentUser = req.user,
                                 !.last = "signInResumed"],
                       "signIn", 0)

\* auth.js:180-199  signOut: the request, and after its answer the user and
\* the flag are cleared; the provider tells the handlers registered before
\* signOut goes on
signOutAnswered(s, i, ans) ==
  LET rest == [s EXCEPT !.pending = dropAt(@, i), !.last = "signOut"]
  IN  IF ans # "ok" THEN rest
      ELSE [onAuthStateChange([rest EXCEPT !.sessionUser = 0],
                              "SIGNED_OUT", 0, rest.listeners)
              EXCEPT !.currentUser = 0, !.isAdmin = FALSE]

\* app.js:58-62  a call of initApp that awaits initAuth goes on when initAuth
\* has returned: appState.isLoading becomes false
RECURSIVE resumedRuns(_, _)
resumedRuns(runs, acc) ==
  IF runs = <<>> THEN <<>>
  ELSE LET run == Head(runs)
       IN  <<IF run.pc = "initAuth" /\ acc.inits[run.auth] = "returned"
             THEN [run EXCEPT !.pc = "done"]
             ELSE run>> \o resumedRuns(Tail(runs), acc)
resumedNever(st, acc) == st
resumed(st, acc) ==
  LET runs == resumedRuns(st.runs, acc)
  IN  [st EXCEPT !.runs = runs,
                 !.isLoading =
                   IF \E k \in DOMAIN runs :
                        runs[k].pc = "done" /\ st.runs[k].pc # "done"
                   THEN FALSE ELSE @]

\* a step of the auth module changes the account; a call of initApp that
\* awaited it goes on
accountBecomes(acc) ==
  /\ account' = acc
  /\ startup' = resumed(startup, acc)
  /\ UNCHANGED <<coreVars, besidesAccount>>

\* auth.js:152-160, 180-187  signIn or signOut is called with the client and
\* sends its request
accountCalled ==
  /\ account.ops < MaxAuthOps
  /\ supabaseClient
  /\ \E kind \in {"signIn", "signOut"}, u \in Users :
       /\ kind = "signOut" => u = 1
       /\ accountBecomes(
            [account EXCEPT
               !.ops = @ + 1,
               !.last = "called",
               !.pending =
                 Append(@, request(kind, IF kind = "signIn" THEN u ELSE 0,
                                   kind, 0))])
\* auth.js:14-19  initAuth is called
accountInitAuth ==
  /\ Len(account.inits) < MaxInitAuth
  /\ accountBecomes([initAuth(account) EXCEPT !.last = "initAuth"])
\* auth.js:33-51  the provider reports a change of the session that no call
\* of this page made: another tab signed in or out, the session expired or
\* was refreshed
accountEvent ==
  /\ account.ops < MaxAuthOps
  /\ account.listeners > 0
  /\ \E event \in AuthEvents, u \in Users \cup {0} :
       /\ (event = "SIGNED_OUT") = (u = 0)
       /\ accountBecomes(
            [onAuthStateChange(
               [account EXCEPT !.sessionUser = u, !.ops = @ + 1], event, u,
               account.listeners)
               EXCEPT !.last = event])
\* auth.js:19  the session is answered
accountGetSession ==
  \E i \in awaiting(account, "getSession"), ans \in AccountAnswers :
    accountBecomes(getSessionAnswered(account, i, ans))
\* auth.js:215-219  the profile lookup is answered
accountProfile ==
  \E i \in awaiting(account, "profile"), ans \in AccountAnswers :
    accountBecomes(profileAnswered(account, i, ans))
\* auth.js:159-166  the sign-in is answered
accountSignIn ==
  \E i \in awaiting(account, "signIn"), ans \in AccountAnswers :
    accountBecomes(signInAnswered(account, i, ans))
\* auth.js:168-169  signIn goes on after the answer
accountSignInResumed ==
  \E i \in awaiting(account, "resume") :
    accountBecomes(signInResumed(account, i))
\* auth.js:187  the sign-out is answered
accountSignOut ==
  \E i \in awaiting(account, "signOut"), ans \in AccountAnswers :
    accountBecomes(signOutAnswered(account, i, ans))

InitAccount ==
  /\ supabaseClient = TRUE
  /\ remoteFiles = <<>>
  /\ remoteFolders = <<>>
  /\ localFiles = <<>>
  /\ localFolders = <<>>
  /\ appState = appStateInit
  /\ lastCall = noCall
  /\ cf = cfIdle
  /\ storage = storageIdle
  /\ session = sessionIdle
  /\ tagList = tagListIdle
  /\ dialog = dialogClosed
  /\ auth = authIdle
  /\ upload = uploadIdle
  /\ search = searchIdle
  /\ flight = flightIdle
  /\ lastWrite = lastWriteIdle
  /\ removal = removalIdle
  /\ startup = startupIdle
  /\ \E u \in Users \cup {0} :
       account = [accountIdle EXCEPT !.sessionUser = u]

NextAccount ==
  \/ accountInitAuth
  \/ accountCalled
  \/ accountEvent
  \/ accountGetSession
  \/ accountProfile
  \/ accountSignIn
  \/ accountSignInResumed
  \/ accountSignOut

SpecAccount == InitAccount /\ [][NextAccount]_vars

\* C27: whenever getCurrentUser() is null, getIsAdmin() is false and
\* getCurrentUsername() is null, under any interleaving of signIn, signOut,
\* auth-state changes and answers of the profile lookup.
C27_FlagsBelongToSession ==
  account.currentUser = 0 =>
    ~account.isAdmin /\ account.currentUsername = nullName

\* C27, what does hold: right after the handler of auth-state changes has
\* handled SIGNED_OUT, nobody is the current user, the flag is false and
\* the username is null.
C27_SignedOutEventClears ==
  account.last = "SIGNED_OUT" =>
    /\ account.currentUser = 0
    /\ ~account.isAdmin
    /\ account.currentUsername = nullName

\* the admin was signed out by an event while a lookup of the profile was
\* under way
C27_Witness ==
  /\ account.last = "SIGNED_OUT"
  /\ \E i \in DOMAIN account.pending :
       account.pending[i] = request("profile", 1, "event", 0)


\* ---------------------------------------------------------------------------
\* The start of the page (app.js:593-624), initApp (app.js:33-73) and the
\* load of the client script (api.js:784-798). A call of initApp awaits
\* loadData and then, when the remote service is configured, initAuth; the
\* requests under way are answered in any order; the timer fires when due.

MaxStartClock == 3000
startupTimeoutMs == 3000
StartTicks == {1000}

\* api.js:815-818
isSupabaseConfigured == startup.configured

\* app.js:33-55  initApp is called and runs to its first await: loadData has
\* called getFiles and getFolders, which looked for the client
initApp(st, client, by) ==
  [st EXCEPT !.runs =
     Append(@, [pc |-> "loadData", client |-> client, auth |-> 0,
                by |-> by, local |-> FALSE])]

\* app.js:597-605, 616-619  the listener of supabaseReady, once, and the
\* timer
startupWaits(st) ==
  [st EXCEPT !.listener = TRUE, !.timer = st.now + startupTimeoutMs]

\* app.js:593-624  app.js starts: on DOMContentLoaded when the document was
\* loading, at once when it was loaded
startupBegan ==
  /\ ~startup.started
  /\ LET st == [startup EXCEPT !.started = TRUE]
     IN  startup' =
           IF ~isSupabaseConfigured THEN initApp(st, supabaseClient, "start")
           ELSE IF st.readyState = "loading" THEN startupWaits(st)
           ELSE IF supabaseClient THEN initApp(st, TRUE, "start")
           ELSE startupWaits(st)
  /\ UNCHANGED <<coreVars, besidesAccount, account>>

\* api.js:789-797  the client script has loaded: when it defines supabase
\* and the client is created, supabaseReady is dispatched, and the listener,
\* if registered, runs initApp and is removed
startupScriptOnload ==
  /\ ~startup.scriptLoaded
  /\ \E created \in BOOLEAN :
       /\ supabaseClient' = created
       /\ LET st == [startup EXCEPT !.scriptLoaded = TRUE]
          IN  startup' =
                IF created /\ st.listener
                THEN initApp([st EXCEPT !.listener = FALSE], TRUE,
                             "supabaseReady")
                ELSE st
  /\ UNCHANGED <<remoteFiles, remoteFolders, localFiles, localFolders,
                 appState, lastCall, cf, besidesAccount, account>>

\* app.js:600-605, 617-619  the timer fires: initApp, if appState.isLoading
startupTimeout ==
  /\ startup.timer # 0
  /\ startup.now >= startup.timer
  /\ LET st == [startup EXCEPT !.timer = 0]
     IN  startup' =
           IF st.isLoading THEN initApp(st, supabaseClient, "timeout")
           ELSE st
  /\ UNCHANGED <<coreVars, besidesAccount, account>>

\* time passes while the timer is pending
startupTick ==
  /\ startup.timer # 0
  /\ startup.now < startup.timer
  /\ startup.now < MaxStartClock
  /\ \E d \in StartTicks : startup' = [startup EXCEPT !.now = @ + d]
  /\ UNCHANGED <<coreVars, besidesAccount, account>>

\* app.js:55-62, 78-97  loadData is answered and assigns appState; initApp
\* goes on: with the remote service configured it calls initAuth and awaits
\* it, then appState.isLoading becomes false
startupLoadData ==
  \E k \in DOMAIN startup.runs, a \in AppAnswers, a1 \in AppAnswers,
     a2 \in AppAnswers :
    /\ startup.runs[k].pc = "loadData"
    /\ LET remote == startup.runs[k].client
           files == IF remote THEN getFiles(a).call.files
                    ELSE getFilesFromLocalStorage
           folders == IF remote THEN getFolders(a1, a2).call.folders
                      ELSE getFoldersFromLocalStorage
           acc == IF isSupabaseConfigured
                  THEN [initAuth(account) EXCEPT !.last = "initAuth"]
                  ELSE account
           st == [startup EXCEPT
                    !.runs[k].pc =
                      IF isSupabaseConfigured THEN "initAuth" ELSE "done",
                    !.runs[k].auth =
                      IF isSupabaseConfigured THEN Len(acc.inits) ELSE 0,
                    !.runs[k].local =
                      IF remote THEN getFiles(a).call.local ELSE TRUE,
                    !.isLoading =
                      IF isSupabaseConfigured THEN @ ELSE FALSE]
       IN  /\ appState' =
                applyFilters([appState EXCEPT
                                !.files = files,
                                !.folders =
                                  recalculateFolderCounts(files, folders)])
           /\ account' = acc
           /\ startup' = resumed(st, acc)
    /\ UNCHANGED <<supabaseClient, remoteFiles, remoteFolders, localFiles,
                   localFolders, lastCall, cf, besidesAccount>>

\* the page is requested: the remote service is configured or not, the
\* document is loading or loaded when app.js runs, the visitor has a session
\* or none
InitStartup ==
  /\ supabaseClient = FALSE
  /\ remoteFolders = <<[id |-> 2 * PoolSize + 1, name |-> <<"A", "r", "t">>]>>
  /\ remoteFiles =
       <<[id |-> 1, title |-> ba, description |-> <<>>, type |-> "pdf",
          folder_id |-> 2 * PoolSize + 1, tags |-> <<tagAB>>]>>
  /\ localFiles = <<>>
  /\ localFolders = <<>>
  /\ appState = appStateInit
  /\ lastCall = noCall
  /\ cf = cfIdle
  /\ storage = storageIdle
  /\ session = sessionIdle
  /\ tagList = tagListIdle
  /\ dialog = dialogClosed
  /\ auth = authIdle
  /\ upload = uploadIdle
  /\ search = searchIdle
  /\ flight = flightIdle
  /\ lastWrite = lastWriteIdle
  /\ removal = removalIdle
  /\ \E u \in {0, 1} : account = [accountIdle EXCEPT !.sessionUser = u]
  /\ \E c \in BOOLEAN, r \in {"loading", "interactive"} :
       startup = [startupIdle EXCEPT !.configured = c, !.readyState = r]

NextStartup ==
  \/ startupBegan
  \/ startupScriptOnload
  \/ startupTimeout
  \/ startupTick
  \/ startupLoadData
  \/ accountGetSession
  \/ accountProfile

SpecStartup == InitStartup /\ [][NextStartup]_vars

\* the document finishes loading, the time passes, the timer fires and every
\* request is answered; the client script may never load
SpecStartupFair ==
  /\ SpecStartup
  /\ WF_vars(startupBegan)
  /\ WF_vars(startupTick)
  /\ WF_vars(startupTimeout)
  /\ WF_vars(startupLoadData)
  /\ WF_vars(accountGetSession)
  /\ WF_vars(accountProfile)

\* C26: startup always completes: with every request answered,
\* appState.isLoading eventually becomes false, whether the client script
\* loads or never does; a call of initApp that the timer made without a
\* client reads the local store.
C26_StartupCompletes ==
  /\ <>(~startup.isLoading)
  /\ [](\A k \in DOMAIN startup.runs :
          (/\ startup.runs[k].by = "timeout"
           /\ ~startup.runs[k].client
           /\ startup.runs[k].pc # "loadData") => startup.runs[k].local)

\* the client script never loaded, the timer started the application, which
\* read the local store, and the loading is over
C26_Witness ==
  /\ ~startup.isLoading
  /\ ~startup.scriptLoaded
  /\ Len(startup.runs) = 1
  /\ startup.runs[1].by = "timeout"
  /\ startup.runs[1].local
  /\ startup.runs[1].pc = "done"

\* C28: initApp is invoked at most once per page load, under any timing of
\* supabaseReady, the timer and the initial load.
C28_InitAppRunsOnce == Len(startup.runs) <= 1

\* C28, what does hold: initApp is invoked at most twice, and twice only
\* with the remote service configured, once by supabaseReady and once by
\* the timer.
C28_InitAppRunsAtMostTwice ==
  /\ Len(startup.runs) <= 2
  /\ Len(startup.runs) = 2 =>
       /\ isSupabaseConfigured
       /\ {startup.runs[k].by : k \in DOMAIN startup.runs}
            = {"supabaseReady", "timeout"}

\* supabaseReady started the application, and the timer started it again
\* while the first load was under way
C28_Witness ==
  /\ Len(startup.runs) = 2
  /\ startup.runs[1].by = "supabaseReady"
  /\ startup.runs[2].by = "timeout"
  /\ startup.runs[1].pc # "done"


\* ---------------------------------------------------------------------------
\* createFile and the rows it leaves (api.js:91-140), under SpecCreate: the
\* call starts against an empty remote table, so the rows of the table are
\* the rows the call created.

\* the answers so far that came from an insert the store applied
appliedAnswers == {i \in DOMAIN cf.answers : cf.answers[i].applied}

\* C29: a single createFile call inserts at most one row into the remote
\* files table, for every sequence of remote answers, including an insert
\* that is applied but answered with an empty row list or an exception.
C29_AtMostOneRowPerCall == Len(remoteFiles) <= 1

\* C29, what does hold: a call leaves at most one row per insert it issued;
\* it issues no insert after one that was answered with its row; and it
\* leaves more than one row only when an insert that the store applied was
\* answered with an empty row list or an exception, which the call retries.
C29_AtMostOneRowPerInsert ==
  /\ Len(remoteFiles) = Cardinality(appliedAnswers)
  /\ Len(remoteFiles) <= cf.issued
  /\ \A i \in DOMAIN cf.answers :
       cf.answers[i].kind = "rows" => i = Len(cf.answers) /\ cf.pc = "done"
  /\ Len(remoteFiles) > 1 =>
       \E i \in appliedAnswers :
         /\ cf.answers[i].kind \in {"empty", "throw"}
         /\ i < Len(cf.answers)

\* the first insert was applied and its answer was lost, the second was
\* applied and answered with its row: the call returned success and left two
\* rows
C29_Witness ==
  /\ cf.pc = "done"
  /\ cf.result.success
  /\ Len(cf.answers) = 2
  /\ cf.answers[1].kind = "throw"
  /\ cf.answers[1].applied
  /\ Len(remoteFiles) = 2
  /\ remoteFiles[1].title = remoteFiles[2].title


\* ---------------------------------------------------------------------------
\* The local fallback mode from the start of the page: no client, the remote
\* service not configured. The page starts, initApp loads the local store
\* (app.js:33-62, 78-97), and then the handlers of the file form, of the
\* delete button and of the folder form run one at a time.

\* a file an earlier visit left in the local store
storedFile ==
  localFile(PoolSize + 1,
            [title |-> ba, description |-> Ab, type |-> "image",
             folderId |-> null, tags |-> <<tagAB>>])

\* app.js:62  the loading is over: the page takes input
loaded == ~startup.isLoading

\* app.js:289-308, 314-409, 415-435  the handlers, once the page is loaded
loadedDeleteFile == loaded /\ handleDeleteFile /\ ~supabaseClient
loadedFileFormSubmit == loaded /\ handleFileFormSubmit /\ ~supabaseClient
loadedFolderFormSubmit == loaded /\ handleFolderFormSubmit /\ ~supabaseClient

InitMirror ==
  /\ supabaseClient = FALSE
  /\ remoteFiles = <<>>
  /\ remoteFolders = <<>>
  /\ localFiles \in {<<>>, <<storedFile>>}
  /\ localFolders = <<>>
  /\ appState = appStateInit
  /\ lastCall = noCall
  /\ cf = cfIdle
  /\ storage = storageIdle
  /\ session = sessionIdle
  /\ tagList = tagListIdle
  /\ dialog = dialogClosed
  /\ auth = authIdle
  /\ upload = uploadIdle
  /\ search = searchIdle
  /\ flight = flightIdle
  /\ lastWrite = lastWriteIdle
  /\ removal = removalIdle
  /\ account = accountIdle
  /\ \E r \in {"loading", "interactive"} :
       startup = [startupIdle EXCEPT !.configured = FALSE, !.readyState = r]

NextMirror ==
  \/ startupBegan
  \/ startupLoadData
  \/ loadedDeleteFile
  \/ loadedFileFormSubmit
  \/ loadedFolderFormSubmit

SpecMirror == InitMirror /\ [][NextMirror]_vars

\* the fields of a file that the list and the store are compared by
mirrored(f) ==
  [id |-> f.id, title |-> f.title, type |-> f.type, folderId |-> f.folderId,
   description |-> f.description, tags |-> f.tags]
mirrors(files, stored) ==
  /\ Len(files) = Len(stored)
  /\ \A i \in DOMAIN files : mirrored(files[i]) = mirrored(stored[i])

\* C30: in local fallback mode, after loadData and any sequence of form
\* creates, form updates and deletes, appState.files has the ids of the
\* stored file array in the same order, with the same title, type, folderId,
\* description and tags; and a file just created is at the head of both.
C30_ListMirrorsLocalStore ==
  /\ [](loaded => mirrors(appState.files, localFiles))
  /\ [][\A id \in seqIds(localFiles') \ seqIds(localFiles) :
          /\ localFiles'[1].id = id
          /\ appState'.files[1].id = id]_vars

\* a file was created after the load of a stored one, which was then
\* changed: the list and the store hold both, the new one first
C30_Witness ==
  /\ loaded
  /\ Len(localFiles) = 2
  /\ localFiles[2].id = storedFile.id
  /\ localFiles[2] # storedFile
  /\ appState.files[1].id = localFiles[1].id
  /\ appState.files[1].id # storedFile.id

=============================================================================
